---- MODULE Spec2Model ----
(***************************************************************************)
(* PDF-Text-Excel-Converter: the file validator, the page-range resolver,  *)
(* the text-extraction pipeline and the table-extraction pipeline, as      *)
(* state machines translated from src/src/core/*.py, and the script run of *)
(* the Streamlit application, translated from src/src/ui/app.py.           *)
(*                                                                         *)
(* Texts are sequences of one-character strings, so that strip(), join()   *)
(* and startswith() are computed character by character.                   *)
(***************************************************************************)
EXTENDS Integers, Sequences, FiniteSets, TLC

VARIABLES
    \* ---- one extract_text / extract_tables call -------------------------
    pc,                   \* position of the call
    doc,                  \* the file at file_path
    mode,                 \* "text" (extract_text) or "table" (extract_tables)
    pages,                \* the pages argument: None or a list of ints
    language,             \* the language argument
    confidence_threshold, \* self.confidence_threshold
    total_pages,          \* local total_pages
    pages_to_process,     \* local pages_to_process
    invalid_pages,        \* local invalid_pages (named in the ValidationError)
    images,               \* local images: the PDF page each image shows
    extracted_texts,      \* local extracted_texts
    result,               \* the value returned, None until the call returns
    error,                \* the exception that escaped the call, "none" if none
    renderLog,            \* calls made to pdf2image.convert_from_bytes
    ocrLog,               \* calls made to pytesseract.image_to_data
    ocr_language,         \* local ocr_language (extract_tables)
    zero_indexed_pages,   \* local zero_indexed_pages (extract_tables)
    detectLog,            \* page sets handed to the table detector
    extracted_tables,     \* local extracted_tables: the tables detected
    xlsx_tables,          \* the tables doc.to_xlsx wrote, None before it ran
    \* ---- the file system ------------------------------------------------
    temp_files,           \* the temporary files of this request that exist
    \* ---- the Streamlit application --------------------------------------
    app_pc,               \* position of the script run
    session_state,        \* st.session_state
    widget_file,          \* what st.file_uploader returns: None or an upload
    temp_doc,             \* the document written to temp_path
    download,             \* the data handed to the download button
    message,              \* the title of the error message displayed
    validation_calls,     \* the validator calls the upload section made
    \* ---- _filter_text_by_confidence called on its own --------------------
    text_data,            \* the OCR output dictionary
    filtered_text,        \* the string returned
    \* ---- the file validator called on its own ---------------------------
    file,                 \* the io.BytesIO stream
    max_size_mb,          \* the max_size_mb argument
    filename,             \* the filename argument
    allowed_extensions,   \* self.allowed_extensions
    op,                   \* the validator operation that ran last
    pos_before,           \* file.tell() when that operation was entered
    outcome,              \* what it returned or raised
    \* ---- the configuration manager --------------------------------------
    config_file,          \* the settings document at config_manager.config_path
    environ,              \* os.environ: None for a variable that is not set
    manager_config,       \* ConfigManager._config
    app_config,           \* PDFConverterApp.config of this script run
    config_error,         \* the exception that escaped load_config
    main_pc,              \* position of main()
    request_config        \* the settings the request accepted last ran with

pipeVars == <<pc, doc, mode, pages, language, confidence_threshold, total_pages,
              pages_to_process, invalid_pages, images, extracted_texts, result,
              error, renderLog, ocrLog, ocr_language, zero_indexed_pages,
              detectLog, extracted_tables, xlsx_tables>>
appVars == <<app_pc, session_state, widget_file, temp_doc, download, message,
            validation_calls>>
filterVars == <<text_data, filtered_text>>
validatorVars == <<file, max_size_mb, filename, allowed_extensions, op,
                   pos_before, outcome>>
configVars == <<config_file, environ, manager_config, app_config, config_error,
                main_pc, request_config>>
vars == <<pipeVars, filterVars, validatorVars, appVars, temp_files, configVars>>

\* Python's None, and a value that is not None
None == [is_none |-> TRUE]
Some(v) == [is_none |-> FALSE, v |-> v]

\* ------------------------------------------------------------------ bounds
\* longest page selection a request carries
MaxSel == 3
\* largest page count of a document
MaxPages == 3
\* longest OCR word list handed to the filter on its own
MaxWords == 3
\* most tables one detection pass returns
MaxTables == 2
\* longest stem put in front of a filename's extension
MaxStem == 2

\* ------------------------------------------------------- sequence helpers
RECURSIVE Concat(_)
\* ss[1] \o ss[2] \o ...
Concat(ss) == IF ss = <<>> THEN <<>> ELSE Head(ss) \o Concat(Tail(ss))

\* all sequences over S of length at most n
SeqsUpTo(S, n) == UNION {[1..k -> S] : k \in 0..n}

Range(s) == {s[i] : i \in 1..Len(s)}

Min(S) == CHOOSE x \in S : \A y \in S : x <= y
Max(S) == CHOOSE x \in S : \A y \in S : x >= y

\* ------------------------------------------------------------ Python text
Digits == <<"0", "1", "2", "3", "4", "5", "6", "7", "8", "9">>

RECURSIVE NatStr(_)
\* str(n) for n >= 0
NatStr(n) == IF n < 10 THEN <<Digits[n + 1]>>
             ELSE NatStr(n \div 10) \o <<Digits[(n % 10) + 1]>>

\* str(n): the decimal text pytesseract's callers (and the tests) hand over
IntStr(n) == IF n < 0 THEN <<"-">> \o NatStr(-n) ELSE NatStr(n)

DigitVal(c) == CHOOSE d \in 0..9 : Digits[d + 1] = c

RECURSIVE ParseNat(_, _)
ParseNat(s, acc) == IF s = <<>> THEN acc
                    ELSE ParseNat(Tail(s), 10 * acc + DigitVal(Head(s)))

\* int(s) for a decimal string with an optional leading minus sign
PyInt(s) == IF Head(s) = "-" THEN -ParseNat(Tail(s), 0) ELSE ParseNat(s, 0)

RECURSIVE LStrip(_)
LStrip(w) == IF w # <<>> /\ Head(w) = " " THEN LStrip(Tail(w)) ELSE w

RECURSIVE RStrip(_)
RStrip(w) == IF w # <<>> /\ w[Len(w)] = " " THEN RStrip(SubSeq(w, 1, Len(w) - 1))
             ELSE w

\* str.strip()
Strip(w) == RStrip(LStrip(w))

RECURSIVE Join(_, _)
\* sep.join(ws)
Join(sep, ws) == IF ws = <<>> THEN <<>>
                 ELSE IF Len(ws) = 1 THEN ws[1]
                 ELSE ws[1] \o sep \o Join(sep, Tail(ws))

\* ------------------------------------------- _filter_text_by_confidence
\* the test `confidence >= self.confidence_threshold and word.strip()`
KeepsAtMost(word, confidence, threshold) ==
    confidence <= threshold /\ Strip(word) # <<>>

KeepsStrict(word, confidence, threshold) ==
    confidence > threshold /\ Strip(word) # <<>>

Keeps(word, confidence, threshold) ==
    confidence >= threshold /\ Strip(word) # <<>>

RECURSIVE FilterLoop(_, _, _, _)
\* the for loop: filtered_words after entries i.. of text_data
FilterLoop(data, threshold, i, filtered_words) ==
    IF i > Len(data.text) THEN filtered_words
    ELSE LET word == data.text[i]
             confidence == PyInt(data.conf[i])
         IN FilterLoop(data, threshold, i + 1,
                       IF Keeps(word, confidence, threshold)
                       THEN Append(filtered_words, word)
                       ELSE filtered_words)

filter_text_by_confidence(data, threshold) ==
    Join(<<" ">>, FilterLoop(data, threshold, 1, <<>>))

\* ------------------------------------------------------------ the inputs
\* A file at file_path: whether it exists, whether its name ends in .pdf
\* (any case), whether PdfReader can parse it, and len(reader.pages).
Docs ==
    {[exists |-> FALSE, suffix_pdf |-> sp, readable |-> FALSE, total |-> 0] :
        sp \in BOOLEAN}
    \cup {[exists |-> TRUE, suffix_pdf |-> sp, readable |-> FALSE, total |-> 0] :
        sp \in BOOLEAN}
    \cup {[exists |-> TRUE, suffix_pdf |-> sp, readable |-> TRUE, total |-> n] :
        sp \in BOOLEAN, n \in 0..MaxPages}

\* The pages argument: None, or a list of page numbers; 0, MaxPages + 1 and
\* MaxPages + 2 are numbers no document of the model has.
Selections == {None} \cup {Some(s) : s \in SeqsUpTo(0..(MaxPages + 2), MaxSel)}

Languages == {"eng", "deu", "xyz"}

\* What the OCR engine reads on page p: the words "p" (85), str(p) (90) and
\* "x" (10), confidences as decimal strings.
OcrData(p) == [text |-> << <<"p">>, NatStr(p), <<"x">> >>,
               conf |-> <<IntStr(85), IntStr(90), IntStr(10)>>]

\* ------------------------------------------------------- PDFProcessorImpl
\* validate_file: "ok" for `return True`, else the exception class raised
validate_file_lenient(d) ==
    IF ~d.exists THEN "PDFReadError"
    ELSE IF ~d.suffix_pdf THEN "ValidationError"
    ELSE IF ~d.readable THEN "PDFReadError"
    ELSE "ok"

validate_file(d) ==
    IF ~d.exists THEN "PDFReadError"
    ELSE IF ~d.suffix_pdf THEN "ValidationError"
    ELSE IF ~d.readable THEN "PDFReadError"   \* PdfReader raised: wrapped
    ELSE IF d.total = 0 THEN "PDFReadError"
    ELSE "ok"

\* get_page_count: [err, value]; every exception of validate_file that is not
\* a PDFReadError is wrapped into one
get_page_count(d) ==
    IF validate_file(d) # "ok" THEN [err |-> "PDFReadError", value |-> 0]
    ELSE [err |-> "ok", value |-> d.total]

\* --------------------------------------------------- page-range resolution
\* [p for p in pages if p < 1 or p > total_pages]
InvalidFirstOnly(sel, total) ==
    LET bad == SelectSeq(sel, LAMBDA p : p < 1 \/ p > total)
    IN IF bad = <<>> THEN <<>> ELSE <<bad[1]>>

InvalidPages(sel, total) == SelectSeq(sel, LAMBDA p : p < 1 \/ p > total)

RECURSIVE Insert(_, _)
Insert(x, s) == IF s = <<>> THEN <<x>>
                ELSE IF x <= Head(s) THEN <<x>> \o s
                ELSE <<Head(s)>> \o Insert(x, Tail(s))

RECURSIVE InsertUnique(_, _)
InsertUnique(x, s) == IF s = <<>> THEN <<x>>
                      ELSE IF x = Head(s) THEN s
                      ELSE IF x < Head(s) THEN <<x>> \o s
                      ELSE <<Head(s)>> \o InsertUnique(x, Tail(s))

RECURSIVE SortedUnique(_)
SortedUnique(s) == IF s = <<>> THEN <<>>
                   ELSE InsertUnique(Head(s), SortedUnique(Tail(s)))

RECURSIVE Sorted(_)
\* sorted(s)
Sorted(s) == IF s = <<>> THEN <<>> ELSE Insert(Head(s), Sorted(Tail(s)))

\* list(range(a, b + 1))
RangeList(a, b) == [i \in 1..(IF b >= a THEN b - a + 1 ELSE 0) |-> a + i - 1]

\* ------------------------------------------------ external collaborators
\* pdf2image.convert_from_bytes(first_page, last_page): one image per page
\* of the document in first_page..last_page
Rendered(first, last, total) == RangeList(first, IF last < total THEN last ELSE total)

\* A table object, as _generate_tables_metadata reads it: the attributes
\* page, bbox and confidence (None: the object has no such attribute) and
\* content.  content.attr: the object has a content attribute;
\* content.sized: len(content) is defined (it is not for None);
\* content.rows: its rows, each with len() defined (sized) or not.
Row(n) == [sized |-> TRUE, cells |-> n]
UnsizedRow == [sized |-> FALSE, cells |-> 0]
NoContent == [attr |-> FALSE, sized |-> FALSE, rows |-> <<>>]
UnsizedContent == [attr |-> TRUE, sized |-> FALSE, rows |-> <<>>]
Content(rows) == [attr |-> TRUE, sized |-> TRUE, rows |-> rows]

\* a table the detector found on page p: one row of two cells
DetectedTable(p) ==
    [page |-> Some(p), bbox |-> Some(<<0, 0, 10, 10>>), confidence |-> Some(99),
     content |-> Content(<<Row(2)>>)]

\* img2table's detection over the page set P: the tables found, in page
\* order
TableOutcomes(P) ==
    {[k \in 1..Len(t) |-> DetectedTable(t[k])] :
        t \in {u \in SeqsUpTo(P, MaxTables) :
                  \A i \in 1..(Len(u) - 1) : u[i] <= u[i + 1]}}

\* ------------------------------------------ _convert_pdf_to_images helpers
\* the else branch after a successful render of min(pages)..max(pages)
PickImagesRangeOnly(ps, imgs) == imgs

PickImages(ps, imgs) ==
    IF Range(ps) # Range(RangeList(Min(Range(ps)), Max(Range(ps))))
    THEN LET page_indices == [k \in 1..Len(ps) |-> ps[k] - Min(Range(ps))]
             kept == SelectSeq(page_indices, LAMBDA i : i < Len(imgs))
         IN [k \in 1..Len(kept) |-> imgs[kept[k] + 1]]
    ELSE imgs

\* the renderer call of a non-empty page list: first_page and last_page
RenderArgsFromOne(ps) == [first |-> 1, last |-> Max(Range(ps))]

RenderArgs(ps) ==
    IF Len(ps) = 1 THEN [first |-> ps[1], last |-> ps[1]]
    ELSE [first |-> Min(Range(ps)), last |-> Max(Range(ps))]

\* ------------------------------------------------------------------- Init
PipeInit ==
    /\ pc = "idle"
    /\ doc = [exists |-> FALSE, suffix_pdf |-> FALSE, readable |-> FALSE, total |-> 0]
    /\ mode = "text"
    /\ pages = None
    /\ language = "eng"
    /\ total_pages = 0
    /\ pages_to_process = <<>>
    /\ invalid_pages = <<>>
    /\ images = <<>>
    /\ extracted_texts = <<>>
    /\ result = None
    /\ error = "none"
    /\ renderLog = <<>>
    /\ ocrLog = <<>>
    /\ ocr_language = None
    /\ zero_indexed_pages = None
    /\ detectLog = <<>>
    /\ extracted_tables = <<>>
    /\ xlsx_tables = None
    /\ temp_files = {}

FilterIdle ==
    /\ text_data = [text |-> <<>>, conf |-> <<>>]
    /\ filtered_text = None

ValidatorIdle ==
    /\ file = [header |-> <<>>, size |-> 0, pos |-> 0]
    /\ max_size_mb = 0
    /\ filename = <<>>
    /\ allowed_extensions = << <<".", "p", "d", "f">> >>
    /\ op = "none"
    /\ pos_before = 0
    /\ outcome = [kind |-> "none", why |-> ""]

\* the application before its first script run: an empty st.session_state
\* (None: the key is absent) and nothing in the upload widget
\* Python values of a settings document: a string, an integer, and the mark
\* of a key the dictionary does not have
StrVal(s) == [str |-> s]
IntVal(n) == [int |-> n]
Absent == [absent |-> TRUE]

\* the configuration manager is not looked at: no settings file, an empty
\* environment, nothing loaded
ConfigIdle ==
    /\ config_file = [exists |-> FALSE, suffix |-> "yaml", readable |-> FALSE,
                      parses |-> FALSE, content |-> None]
    /\ environ = [v \in {"TESSERACT_PATH", "DEFAULT_LANGUAGE", "MAX_FILE_SIZE_MB",
                          "TEMP_DIR", "OUTPUT_DIR", "LOG_LEVEL", "LOG_FILE_PATH"}
                      |-> None]
    /\ manager_config = None
    /\ app_config = None
    /\ config_error = "none"
    /\ main_pc = "idle"
    /\ request_config = None

AppIdle ==
    /\ app_pc = "idle"
    /\ session_state = [uploaded_file |-> None, file_info |-> None,
                        language |-> None, confidence |-> None,
                        show_preview |-> None, conversion_type |-> None,
                        selected_pages |-> None, start_processing |-> FALSE]
    /\ widget_file = None
    /\ temp_doc = None
    /\ download = None
    /\ message = "none"
    /\ validation_calls = <<>>

\* TextExtractorImpl(confidence_threshold) / TableExtractorImpl(...)
Thresholds == {50, 90}

Init ==
    /\ PipeInit
    /\ confidence_threshold \in Thresholds
    /\ FilterIdle
    /\ ValidatorIdle
    /\ AppIdle
    /\ ConfigIdle

\* ------------------------------------------------- the call and its steps
\* extract_text(file_path, pages, language) or extract_tables(...) is called
Call ==
    /\ pc = "idle"
    /\ \E d \in Docs, m \in {"text", "table"}, sel \in Selections, l \in Languages :
          /\ doc' = d
          /\ mode' = m
          /\ pages' = sel
          /\ language' = l
    /\ pc' = "start"
    /\ UNCHANGED <<confidence_threshold, total_pages, pages_to_process,
                   invalid_pages, images, extracted_texts, result, error,
                   renderLog, ocrLog, ocr_language, zero_indexed_pages,
                   detectLog, extracted_tables>>
    /\ UNCHANGED <<xlsx_tables, temp_files, filterVars, validatorVars, configVars, appVars>>

\* self.pdf_processor.validate_file(file_path), then get_page_count(file_path)
ValidateDocument ==
    /\ pc = "start"
    /\ LET v == validate_file(doc)
           c == get_page_count(doc)
       IN IF v # "ok"
          THEN /\ pc' = "failed"
               /\ error' = v
               /\ UNCHANGED total_pages
          ELSE IF c.err # "ok"
          THEN /\ pc' = "failed"
               /\ error' = c.err
               /\ UNCHANGED total_pages
          ELSE /\ pc' = "validated"
               /\ total_pages' = c.value
               /\ UNCHANGED error
    /\ UNCHANGED <<doc, mode, pages, language, confidence_threshold,
                   pages_to_process, invalid_pages, images, extracted_texts,
                   result, renderLog, ocrLog, ocr_language, zero_indexed_pages,
                   detectLog, extracted_tables>>
    /\ UNCHANGED <<xlsx_tables, temp_files, filterVars, validatorVars, configVars, appVars>>

\* "Determine pages to process": the same lines in extract_text and in
\* extract_tables
ResolvePages ==
    /\ pc = "validated"
    /\ IF pages = None
       THEN /\ pages_to_process' = RangeList(1, total_pages)
            /\ pc' = "resolved"
            /\ UNCHANGED <<invalid_pages, error>>
       ELSE IF InvalidPages(pages.v, total_pages) # <<>>
       THEN /\ invalid_pages' = InvalidPages(pages.v, total_pages)
            /\ pc' = "failed"
            /\ error' = "ValidationError"
            /\ UNCHANGED pages_to_process
       ELSE /\ pages_to_process' = Sorted(pages.v)
            /\ pc' = "resolved"
            /\ UNCHANGED <<invalid_pages, error>>
    /\ UNCHANGED <<doc, mode, pages, language, confidence_threshold, total_pages,
                   images, extracted_texts, result, renderLog, ocrLog,
                   ocr_language, zero_indexed_pages, detectLog, extracted_tables>>
    /\ UNCHANGED <<xlsx_tables, temp_files, filterVars, validatorVars, configVars, appVars>>

\* `except Exception as e: raise OCRError(...)` of _convert_pdf_to_images,
\* which extract_text lets through as an OCRError
ConvertFailureSwallowed == [pc |-> "rendered", error |-> "none"]

\* the renderer's own exception leaves extract_text as it was raised
ConvertFailureUnwrapped == [pc |-> "failed", error |-> "PDFPageCountError"]

\* a failure after which _convert_pdf_to_images is entered again
ConvertFailureRetried == [pc |-> "resolved", error |-> "none"]

ConvertFailure == [pc |-> "failed", error |-> "OCRError"]

\* _convert_pdf_to_images(file_path, pages_to_process), called by extract_text
ConvertPdfToImages ==
    /\ pc = "resolved"
    /\ mode = "text"
    /\ \/ \* min() of an empty list raises ValueError, wrapped into OCRError
          /\ pages_to_process = <<>>
          /\ pc' = ConvertFailure.pc
          /\ error' = ConvertFailure.error
          /\ UNCHANGED <<images, renderLog>>
       \/ \* the renderer raises: wrapped into OCRError
          /\ pages_to_process # <<>>
          /\ renderLog' = Append(renderLog,
                                 [args |-> RenderArgs(pages_to_process), ok |-> FALSE])
          /\ pc' = ConvertFailure.pc
          /\ error' = ConvertFailure.error
          /\ UNCHANGED images
       \/ /\ pages_to_process # <<>>
          /\ renderLog' = Append(renderLog,
                                 [args |-> RenderArgs(pages_to_process), ok |-> TRUE])
          /\ LET a == RenderArgs(pages_to_process)
                 r == Rendered(a.first, a.last, doc.total)
             IN images' = IF Len(pages_to_process) = 1 THEN r
                          ELSE PickImages(pages_to_process, r)
          /\ pc' = "rendered"
          /\ UNCHANGED error
    /\ UNCHANGED <<doc, mode, pages, language, confidence_threshold, total_pages,
                   pages_to_process, invalid_pages, extracted_texts, result,
                   ocrLog, ocr_language, zero_indexed_pages, detectLog,
                   extracted_tables>>
    /\ UNCHANGED <<xlsx_tables, temp_files, filterVars, validatorVars, configVars, appVars>>

\* extracted_texts after an iteration of the OCR loop whose image_to_data
\* raised: `extracted_texts.append("")`
OcrFailedEntrySkips(texts) == texts

OcrFailedEntry(texts) == Append(texts, <<>>)

\* one iteration of `for i, image in enumerate(images)`: image_to_data either
\* returns the page's words or raises, and then the entry is ""
OcrPage ==
    /\ pc = "rendered"
    /\ mode = "text"
    /\ Len(ocrLog) < Len(images)
    /\ LET page == images[Len(ocrLog) + 1]
       IN \E ok \in BOOLEAN :
             /\ ocrLog' = Append(ocrLog, [page |-> page, ok |-> ok])
             /\ extracted_texts' =
                   IF ok
                   THEN Append(extracted_texts,
                               filter_text_by_confidence(OcrData(page),
                                                         confidence_threshold))
                   ELSE OcrFailedEntry(extracted_texts)
    /\ UNCHANGED <<pc, doc, mode, pages, language, confidence_threshold,
                   total_pages, pages_to_process, invalid_pages, images, result,
                   error, renderLog, ocr_language, zero_indexed_pages, detectLog,
                   extracted_tables>>
    /\ UNCHANGED <<xlsx_tables, temp_files, filterVars, validatorVars, configVars, appVars>>

\* `return extracted_texts`
ReturnTexts ==
    /\ pc = "rendered"
    /\ mode = "text"
    /\ Len(ocrLog) >= Len(images)
    /\ result' = Some(extracted_texts)
    /\ pc' = "done"
    /\ UNCHANGED <<doc, mode, pages, language, confidence_threshold, total_pages,
                   pages_to_process, invalid_pages, images, extracted_texts,
                   error, renderLog, ocrLog, ocr_language, zero_indexed_pages,
                   detectLog, extracted_tables>>
    /\ UNCHANGED <<xlsx_tables, temp_files, filterVars, validatorVars, configVars, appVars>>

\* --------------------------------------------------------- extract_tables
\* _convert_language_code that hands an unknown code on as it is
convert_language_code_passthrough(l) ==
    CASE l = "eng" -> "en"
      [] l = "fra" -> "fr"
      [] l = "deu" -> "de"
      [] l = "spa" -> "es"
      [] l = "ita" -> "it"
      [] l = "por" -> "pt"
      [] l = "rus" -> "ru"
      [] l = "jpn" -> "ja"
      [] l = "kor" -> "ko"
      [] l = "chi_sim" -> "ch"
      [] l = "chi_tra" -> "ch"
      [] OTHER -> l

\* _convert_language_code: language_mapping.get(language, 'en')
convert_language_code(l) ==
    CASE l = "eng" -> "en"
      [] l = "fra" -> "fr"
      [] l = "deu" -> "de"
      [] l = "spa" -> "es"
      [] l = "ita" -> "it"
      [] l = "por" -> "pt"
      [] l = "rus" -> "ru"
      [] l = "jpn" -> "ja"
      [] l = "kor" -> "ko"
      [] l = "chi_sim" -> "ch"
      [] l = "chi_tra" -> "ch"
      [] OTHER -> "en"

\* [p - 1 for p in pages_to_process] if pages_to_process else None
ZeroIndexed(ps) == IF ps # <<>> THEN Some([k \in 1..Len(ps) |-> ps[k] - 1]) ELSE None

\* the 0-indexed pages PDF(str(file_path), pages=zero_indexed_pages) covers:
\* every page of the document when pages is None
DocumentPages(zip, total) == IF zip = None THEN 0..(total - 1) ELSE Range(zip.v)

\* ocr_language, PaddleOCR(lang=ocr_language, ...), zero_indexed_pages and
\* PDF(...); a constructor that raises is wrapped into ConversionError
PrepareDetection ==
    /\ pc = "resolved"
    /\ mode = "table"
    /\ ocr_language' = Some(convert_language_code(language))
    /\ \/ /\ pc' = "failed"
          /\ error' = "ConversionError"
          /\ UNCHANGED zero_indexed_pages
       \/ /\ zero_indexed_pages' = ZeroIndexed(pages_to_process)
          /\ pc' = "prepared"
          /\ UNCHANGED error
    /\ UNCHANGED <<doc, mode, pages, language, confidence_threshold, total_pages,
                   pages_to_process, invalid_pages, images, extracted_texts,
                   result, renderLog, ocrLog, detectLog, extracted_tables>>
    /\ UNCHANGED <<xlsx_tables, temp_files, filterVars, validatorVars, configVars, appVars>>

\* doc.extract_tables(...): a detection pass that returns tables or raises
DetectTables ==
    /\ pc = "prepared"
    /\ LET P == DocumentPages(zero_indexed_pages, doc.total)
       IN /\ detectLog' = Append(detectLog, P)
          /\ \/ /\ pc' = "failed"
                /\ error' = "ConversionError"
                /\ UNCHANGED extracted_tables
             \/ /\ extracted_tables' \in TableOutcomes(P)
                /\ pc' = "detected"
                /\ UNCHANGED error
    /\ UNCHANGED <<doc, mode, pages, language, confidence_threshold, total_pages,
                   pages_to_process, invalid_pages, images, extracted_texts,
                   result, renderLog, ocrLog, ocr_language, zero_indexed_pages>>
    /\ UNCHANGED <<xlsx_tables, temp_files, filterVars, validatorVars, configVars, appVars>>

\* NamedTemporaryFile(suffix=".xlsx", delete=False), then doc.to_xlsx(...):
\* it is handed the path and the detection options, not extracted_tables,
\* and runs a detection pass of its own, whose tables it writes; when it
\* raises, nothing unlinks the file
ExportXlsx ==
    /\ pc = "detected"
    /\ temp_files' = temp_files \cup {".xlsx"}
    /\ LET P == DocumentPages(zero_indexed_pages, doc.total)
       IN /\ detectLog' = Append(detectLog, P)
          /\ \/ /\ pc' = "failed"
                /\ error' = "ConversionError"
                /\ UNCHANGED xlsx_tables
             \/ /\ \E written \in TableOutcomes(P) : xlsx_tables' = Some(written)
                /\ pc' = "exported"
                /\ UNCHANGED error
    /\ UNCHANGED <<doc, mode, pages, language, confidence_threshold, total_pages,
                   pages_to_process, invalid_pages, images, extracted_texts,
                   result, renderLog, ocrLog, ocr_language, zero_indexed_pages,
                   extracted_tables>>
    /\ UNCHANGED <<filterVars, validatorVars, configVars, appVars>>

\* the string 'Unknown' put where a page number could be
Unknown == [unknown |-> TRUE]

\* the table_info dictionary of one table: "TypeError" when building it
\* raises, which len(table.content) does for a content without len() and
\* len(table.content[0]) for a first row without len()
TableInfo(i, table) ==
    LET c == table.content
    IN IF c.attr /\ ~c.sized THEN [raised |-> "TypeError"]
       ELSE IF c.attr /\ c.rows # <<>> /\ ~c.rows[1].sized
       THEN [raised |-> "TypeError"]
       ELSE [raised |-> "none",
             info |-> [table_id |-> i,
                       page_number |-> IF table.page = None THEN Unknown
                                       ELSE table.page,
                       bbox |-> table.bbox,
                       confidence |-> table.confidence,
                       rows |-> IF c.attr THEN Len(c.rows) ELSE 0,
                       columns |-> IF c.attr /\ c.rows # <<>>
                                   THEN c.rows[1].cells ELSE 0]]

\* the `except Exception as e` entry of table i
ErrorInfo(i, e) == [table_id |-> i, page_number |-> Unknown, error |-> e]

\* _generate_tables_metadata that lets the failure of a table end the loop
generate_tables_metadata_aborting(tables) ==
    LET bad == {k \in 1..Len(tables) : TableInfo(k, tables[k]).raised # "none"}
        n == IF bad = {} THEN Len(tables) ELSE Min(bad) - 1
    IN [k \in 1..n |-> TableInfo(k, tables[k]).info]

\* _generate_tables_metadata(extracted_tables, pages_to_process)
generate_tables_metadata(tables) ==
    [k \in 1..Len(tables) |->
        LET t == TableInfo(k, tables[k])
        IN IF t.raised = "none" THEN t.info ELSE ErrorInfo(k, t.raised)]

\* `return excel_file_path, tables_metadata`
ReturnTables ==
    /\ pc = "exported"
    /\ result' = Some([excel_file_path |-> "tmp.xlsx",
                       tables_metadata |-> generate_tables_metadata(extracted_tables)])
    /\ pc' = "done"
    /\ UNCHANGED <<doc, mode, pages, language, confidence_threshold, total_pages,
                   pages_to_process, invalid_pages, images, extracted_texts,
                   error, renderLog, ocrLog, ocr_language, zero_indexed_pages,
                   detectLog, extracted_tables>>
    /\ UNCHANGED <<xlsx_tables, temp_files, filterVars, validatorVars, configVars, appVars>>

Next ==
    \/ Call
    \/ ValidateDocument
    \/ ResolvePages
    \/ ConvertPdfToImages
    \/ OcrPage
    \/ ReturnTexts
    \/ PrepareDetection
    \/ DetectTables
    \/ ExportXlsx
    \/ ReturnTables

Spec == Init /\ [][Next]_vars

\* ------------------------------- _filter_text_by_confidence on its own
\* OCR words: empty, blank, plain, and one with a trailing blank
FilterWords == {<<>>, <<" ">>, <<"a">>, <<"b", " ">>}

\* word confidences; -1 is what Tesseract gives an entry that is no word
FilterConfs == {-1, 0, 49, 50, 90}

FilterThresholds == {0, 50}

\* the dictionary image_to_data returns for a list of (word, confidence)
TextData(ws) == [text |-> [i \in 1..Len(ws) |-> ws[i][1]],
                 conf |-> [i \in 1..Len(ws) |-> IntStr(ws[i][2])]]

FilterInit ==
    /\ PipeInit
    /\ confidence_threshold \in FilterThresholds
    /\ text_data \in {TextData(ws) : ws \in SeqsUpTo(FilterWords \X FilterConfs, MaxWords)}
    /\ filtered_text = None
    /\ ValidatorIdle
    /\ AppIdle
    /\ ConfigIdle

\* self._filter_text_by_confidence(text_data)
FilterText ==
    /\ filtered_text = None
    /\ filtered_text' = Some(filter_text_by_confidence(text_data, confidence_threshold))
    /\ UNCHANGED <<text_data, pipeVars, validatorVars, configVars, appVars, temp_files>>

FilterNext == FilterText

SpecFilter == FilterInit /\ [][FilterNext]_vars

\* ---------------------------------------------------- FileValidatorImpl
\* 1024 * 1024
MB == 1048576

\* b'%PDF-'
PdfMagic == <<"%", "P", "D", "F", "-">>

\* largest max_size_mb handed to validate_file_size
MaxSizeLimit == 2

\* An io.BytesIO is its first 8 bytes (all of it when it is shorter), its
\* length and its read position: the validator reads nothing else.
Headers ==
    {h \in {SubSeq(PdfMagic, 1, k) \o [i \in 1..n |-> "x"] : k \in 0..5, n \in 0..8} :
        Len(h) <= 8}
    \cup {<<"x">> \o PdfMagic}

StreamSizes(h) ==
    IF Len(h) < 8 THEN {Len(h)}
    ELSE {8} \cup {k * MB + d : k \in 1..MaxSizeLimit, d \in {-1, 0, 1}}

\* read positions: the start, inside the header, the end, past the end
StreamPositions(size) == {0, 3, size, size + 1}

Streams ==
    UNION {UNION {{[header |-> h, size |-> n, pos |-> q] : q \in StreamPositions(n)} :
                     n \in StreamSizes(h)} : h \in Headers}

\* file.tell(), file.seek(n), file.seek(0, 2)
Tell(f) == f.pos
Seek(f, n) == [f EXCEPT !.pos = n]
SeekEnd(f) == [f EXCEPT !.pos = f.size]

\* file.read(8): the bytes from the read position on, nothing at or past the
\* end.  Of a read that starts inside the first 8 bytes the model knows the
\* bytes up to the 8th: five of them from position 3, as many as the
\* signature has.
Read8(f) ==
    [data |-> IF f.pos < Len(f.header)
              THEN SubSeq(f.header, f.pos + 1, Len(f.header))
              ELSE <<>>,
     file |-> [f EXCEPT !.pos = IF f.pos + 8 < f.size THEN f.pos + 8
                                ELSE IF f.pos < f.size THEN f.size
                                ELSE f.pos]]

\* bytes.startswith
StartsWith(b, prefix) ==
    Len(b) >= Len(prefix) /\ SubSeq(b, 1, Len(prefix)) = prefix

\* validate_file_type: the stream it leaves and what it returns or raises
validate_file_type_no_restore(f) ==
    LET r == Read8(Seek(f, 0))
    IN [file |-> r.file,
        outcome |-> IF StartsWith(r.data, PdfMagic)
                    THEN [kind |-> "True", why |-> ""]
                    ELSE [kind |-> "ValidationError", why |-> "not a valid PDF"]]

\* validate_file_type without its file.seek(0)
validate_file_type_from_current(f) ==
    LET current_pos == Tell(f)
        r == Read8(f)
        restored == Seek(r.file, current_pos)
    IN [file |-> restored,
        outcome |-> IF StartsWith(r.data, PdfMagic)
                    THEN [kind |-> "True", why |-> ""]
                    ELSE [kind |-> "ValidationError", why |-> "not a valid PDF"]]

validate_file_type(f) ==
    LET current_pos == Tell(f)
        r == Read8(Seek(f, 0))
        restored == Seek(r.file, current_pos)
    IN [file |-> restored,
        outcome |-> IF StartsWith(r.data, PdfMagic)
                    THEN [kind |-> "True", why |-> ""]
                    ELSE [kind |-> "ValidationError", why |-> "not a valid PDF"]]

\* validate_file_size: file_size / (1024 * 1024) > max_size_mb, an exact
\* comparison for every length below 2^53
validate_file_size_inclusive(f, limit) ==
    LET current_pos == Tell(f)
        file_size == Tell(SeekEnd(f))
        restored == Seek(SeekEnd(f), current_pos)
    IN [file |-> restored,
        outcome |-> IF file_size >= limit * MB
                    THEN [kind |-> "ValidationError", why |-> "exceeds maximum"]
                    ELSE [kind |-> "True", why |-> ""]]

validate_file_size(f, limit) ==
    LET current_pos == Tell(f)
        file_size == Tell(SeekEnd(f))
        restored == Seek(SeekEnd(f), current_pos)
    IN [file |-> restored,
        outcome |-> IF file_size > limit * MB
                    THEN [kind |-> "ValidationError", why |-> "exceeds maximum"]
                    ELSE [kind |-> "True", why |-> ""]]

StreamInit ==
    /\ PipeInit
    /\ confidence_threshold = 50
    /\ FilterIdle
    /\ file \in Streams
    /\ max_size_mb \in 0..MaxSizeLimit
    /\ filename = <<>>
    /\ allowed_extensions = << <<".", "p", "d", "f">> >>
    /\ op = "none"
    /\ pos_before = 0
    /\ outcome = [kind |-> "none", why |-> ""]
    /\ AppIdle
    /\ ConfigIdle

\* self.file_validator.validate_file_type(file)
ValidateFileType ==
    /\ op' = "validate_file_type"
    /\ pos_before' = file.pos
    /\ file' = validate_file_type(file).file
    /\ outcome' = validate_file_type(file).outcome
    /\ UNCHANGED <<max_size_mb, filename, allowed_extensions, pipeVars, filterVars,
                   appVars, temp_files, configVars>>

\* self.file_validator.validate_file_size(file, max_size_mb)
ValidateFileSize ==
    /\ op' = "validate_file_size"
    /\ pos_before' = file.pos
    /\ file' = validate_file_size(file, max_size_mb).file
    /\ outcome' = validate_file_size(file, max_size_mb).outcome
    /\ UNCHANGED <<max_size_mb, filename, allowed_extensions, pipeVars, filterVars,
                   appVars, temp_files, configVars>>

StreamNext == ValidateFileType \/ ValidateFileSize

SpecStream == StreamInit /\ [][StreamNext]_vars

\* ------------------------------------------------------- validate_filename
\* str.lower() on the letters of the model's filenames
LowerChar(c) ==
    CASE c = "P" -> "p"
      [] c = "D" -> "d"
      [] c = "F" -> "f"
      [] c = "A" -> "a"
      [] OTHER -> c

Lower(w) == [i \in 1..Len(w) |-> LowerChar(w[i])]

\* `sub in w`
Contains(w, sub) ==
    \E i \in 1..(Len(w) - Len(sub) + 1) : SubSeq(w, i, i + Len(sub) - 1) = sub

RECURSIVE SplitOn(_, _, _)
\* w.split(sep) for a one-character sep; cur is the piece being read
SplitOn(w, sep, cur) ==
    IF w = <<>> THEN <<cur>>
    ELSE IF Head(w) = sep THEN <<cur>> \o SplitOn(Tail(w), sep, <<>>)
    ELSE SplitOn(Tail(w), sep, Append(cur, Head(w)))

\* Path(filename).name: the last component, the empty and the "."
\* components dropped ('' when there is none)
PathName(w) ==
    LET parts == SelectSeq(SplitOn(w, "/", <<>>), LAMBDA c : c # <<>> /\ c # <<".">>)
    IN IF parts = <<>> THEN <<>> ELSE parts[Len(parts)]

\* PurePath.suffix: from the last dot of the name, unless that dot is the
\* name's first or last character
Suffix(name) ==
    LET dots == {i \in 1..Len(name) : name[i] = "."}
    IN IF dots = {} THEN <<>>
       ELSE LET i == Max(dots)
            IN IF 1 < i /\ i < Len(name) THEN SubSeq(name, i, Len(name)) ELSE <<>>

\* dangerous_chars
DangerousCharsNoDotDot ==
    << <<"/">>, <<"\\">>, <<":">>, <<"*">>, <<"?">>, <<"\"">>, <<"<">>,
       <<">">>, <<"|">> >>

DangerousChars ==
    << <<".", ".">>, <<"/">>, <<"\\">>, <<":">>, <<"*">>, <<"?">>, <<"\"">>,
       <<"<">>, <<">">>, <<"|">> >>

\* FileValidatorImpl(allowed_extensions): `allowed_extensions or ['.pdf']`
FileValidatorInit(arg) ==
    IF arg = None THEN << <<".", "p", "d", "f">> >>
    ELSE IF arg.v = <<>> THEN << <<".", "p", "d", "f">> >>
    ELSE arg.v

validate_filename(name, allowed) ==
    IF name = <<>>
    THEN [kind |-> "ValidationError", why |-> "empty"]
    ELSE IF Lower(Suffix(PathName(name))) \notin Range(allowed)
    THEN [kind |-> "ValidationError", why |-> "extension"]
    ELSE IF \E k \in 1..Len(DangerousChars) : Contains(name, DangerousChars[k])
    THEN [kind |-> "ValidationError", why |-> "invalid characters"]
    ELSE [kind |-> "True", why |-> ""]

\* the characters put in front of an extension
StemChars == {"a", "A", ".", "/", "\\", ":", "*", "?", "\"", "<", ">", "|"}

Extensions ==
    {<<>>, <<".", "p", "d", "f">>, <<".", "P", "D", "F">>, <<".", "P", "d", "f">>,
     <<".", "t", "x", "t">>, <<".", "p", "d">>, <<"p", "d", "f">>}

Trailers == {<<>>, <<".">>, <<" ">>, <<"*">>, <<"/">>}

Filenames ==
    {stem \o ext \o trailer :
        stem \in SeqsUpTo(StemChars, MaxStem), ext \in Extensions, trailer \in Trailers}

AllowedArgs ==
    {None, Some(<<>>), Some(<< <<".", "p", "d", "f">>, <<".", "t", "x", "t">> >>)}

FilenameInit ==
    /\ PipeInit
    /\ confidence_threshold = 50
    /\ FilterIdle
    /\ file = [header |-> <<>>, size |-> 0, pos |-> 0]
    /\ max_size_mb = 0
    /\ filename \in Filenames
    /\ allowed_extensions \in {FileValidatorInit(a) : a \in AllowedArgs}
    /\ op = "none"
    /\ pos_before = 0
    /\ outcome = [kind |-> "none", why |-> ""]
    /\ AppIdle
    /\ ConfigIdle

\* self.file_validator.validate_filename(filename)
ValidateFilename ==
    /\ op' = "validate_filename"
    /\ outcome' = validate_filename(filename, allowed_extensions)
    /\ UNCHANGED <<file, max_size_mb, filename, allowed_extensions, pos_before,
                   pipeVars, filterVars, appVars, temp_files, configVars>>

FilenameNext == ValidateFilename

SpecFilename == FilenameInit /\ [][FilenameNext]_vars

\* ------- _convert_language_code and _generate_tables_metadata on their own
\* the keys of language_mapping, and four codes that are not keys of it
LanguageCodes ==
    {"eng", "fra", "deu", "spa", "ita", "por", "rus", "jpn", "kor", "chi_sim",
     "chi_tra"} \cup {"xyz", "en", "ENG", ""}

\* the attributes of a table object: all three, a page only, none
TableAttributes ==
    {[page |-> Some(0), bbox |-> Some(<<0, 0, 10, 10>>), confidence |-> Some(99)],
     [page |-> Some(1), bbox |-> None, confidence |-> None],
     [page |-> None, bbox |-> None, confidence |-> None]}

\* the contents: none, one without len(), no rows, rows of two, one and
\* zero cells, and rows the first or the second of which has no len()
TableContents ==
    {NoContent, UnsizedContent, Content(<<>>), Content(<<Row(2), Row(2)>>),
     Content(<<Row(0)>>), Content(<<UnsizedRow>>), Content(<<Row(1), UnsizedRow>>)}

TableObjects ==
    {[page |-> a.page, bbox |-> a.bbox, confidence |-> a.confidence, content |-> c] :
        a \in TableAttributes, c \in TableContents}

TablesInit ==
    /\ pc = "idle"
    /\ doc = [exists |-> FALSE, suffix_pdf |-> FALSE, readable |-> FALSE, total |-> 0]
    /\ mode = "table"
    /\ pages = None
    /\ language \in LanguageCodes
    /\ confidence_threshold = 50
    /\ total_pages = 0
    /\ pages_to_process = <<>>
    /\ invalid_pages = <<>>
    /\ images = <<>>
    /\ extracted_texts = <<>>
    /\ result = None
    /\ error = "none"
    /\ renderLog = <<>>
    /\ ocrLog = <<>>
    /\ ocr_language = None
    /\ zero_indexed_pages = None
    /\ detectLog = <<>>
    /\ extracted_tables \in SeqsUpTo(TableObjects, MaxTables)
    /\ xlsx_tables = None
    /\ temp_files = {}
    /\ FilterIdle
    /\ ValidatorIdle
    /\ AppIdle
    /\ ConfigIdle

\* self._convert_language_code(language)
ConvertLanguageCode ==
    /\ ocr_language = None
    /\ ocr_language' = Some(convert_language_code(language))
    /\ UNCHANGED <<pc, doc, mode, pages, language, confidence_threshold,
                   total_pages, pages_to_process, invalid_pages, images,
                   extracted_texts, result, error, renderLog, ocrLog,
                   zero_indexed_pages, detectLog, extracted_tables, xlsx_tables>>
    /\ UNCHANGED <<temp_files, filterVars, validatorVars, configVars, appVars>>

\* self._generate_tables_metadata(extracted_tables, pages_to_process)
GenerateTablesMetadata ==
    /\ result = None
    /\ result' = Some(generate_tables_metadata(extracted_tables))
    /\ UNCHANGED <<pc, doc, mode, pages, language, confidence_threshold,
                   total_pages, pages_to_process, invalid_pages, images,
                   extracted_texts, error, renderLog, ocrLog, ocr_language,
                   zero_indexed_pages, detectLog, extracted_tables, xlsx_tables>>
    /\ UNCHANGED <<temp_files, filterVars, validatorVars, configVars, appVars>>

TablesNext == ConvertLanguageCode \/ GenerateTablesMetadata

SpecTables == TablesInit /\ [][TablesNext]_vars

\* ------------------------------------------- PDFConverterApp (ui/app.py)
\* One script run of the Streamlit application is one request: run() renders
\* the sidebar, the upload section and the options section, and then
\* _process_uploaded_file() when st.session_state holds an uploaded file.
\* The extractor calls it makes take the steps of extract_text and
\* extract_tables above.

\* ProcessingConfig.max_file_size_mb
max_file_size_mb == 100

\* OCRConfig.supported_languages, the options of the language selectbox
supported_languages == {"eng", "fra"}

\* positions of the confidence slider (0..100)
SliderValues == {50, 90}

\* An UploadedFile: its name, its first 8 bytes, its length, and what
\* PdfReader makes of its bytes.  a.pdf and b.pdf are documents of two and
\* of three pages, c.pdf is no PDF, d.pdf carries the signature but cannot
\* be parsed.  The others fail more than one validation: "e*.txt" is no
\* PDF, too large and misnamed, the nameless upload is too large, "g*.txt"
\* has the wrong extension and an unsafe character, "h*.pdf" the unsafe
\* character only, and one upload has nothing wrong but its empty name.
\* The name is the one the client sent with the bytes.
Uploads ==
    {[name |-> <<"e", "*", ".", "t", "x", "t">>,
      header |-> <<"x", "x", "x", "x", "x", "x", "x", "x">>,
      size |-> max_file_size_mb * MB + 1, readable |-> FALSE, total |-> 0],
     [name |-> <<>>,
      header |-> PdfMagic \o <<"1", ".", "7">>,
      size |-> max_file_size_mb * MB + 1, readable |-> TRUE, total |-> 2],
     [name |-> <<"g", "*", ".", "t", "x", "t">>,
      header |-> PdfMagic \o <<"1", ".", "7">>, size |-> 8,
      readable |-> TRUE, total |-> 2],
     [name |-> <<"h", "*", ".", "p", "d", "f">>,
      header |-> PdfMagic \o <<"1", ".", "7">>, size |-> 8,
      readable |-> TRUE, total |-> 2],
     [name |-> <<>>,
      header |-> PdfMagic \o <<"1", ".", "7">>, size |-> 8,
      readable |-> TRUE, total |-> 2]} \cup
    {[name |-> <<"a", ".", "p", "d", "f">>,
      header |-> PdfMagic \o <<"1", ".", "7">>, size |-> 8,
      readable |-> TRUE, total |-> 2],
     [name |-> <<"b", ".", "p", "d", "f">>,
      header |-> PdfMagic \o <<"1", ".", "7">>, size |-> 8,
      readable |-> TRUE, total |-> 3],
     [name |-> <<"c", ".", "p", "d", "f">>,
      header |-> <<"x", "x", "x", "x", "x", "x", "x", "x">>, size |-> 8,
      readable |-> FALSE, total |-> 0],
     [name |-> <<"d", ".", "p", "d", "f">>,
      header |-> PdfMagic \o <<"x", "x", "x">>, size |-> 8,
      readable |-> FALSE, total |-> 0]}

\* the UploadedFile u with its read position at n
At(u, n) == [name |-> u.name, header |-> u.header, size |-> u.size,
             readable |-> u.readable, total |-> u.total, pos |-> n]

\* the value st.multiselect returns for options 1..total: the pages picked,
\* each once, in the order they were picked
MultiSelect(total) ==
    {sel \in SeqsUpTo(1..total, MaxSel) :
        \A i, j \in 1..Len(sel) : i # j => sel[i] # sel[j]}

\* the file tmp_file.write(uploaded_file.read()) leaves at temp_path: the
\* bytes of the upload from its read position on
WrittenDoc(u) ==
    IF u.pos = 0
    THEN [exists |-> TRUE, suffix_pdf |-> TRUE, readable |-> u.readable,
          total |-> u.total]
    ELSE [exists |-> TRUE, suffix_pdf |-> TRUE, readable |-> FALSE, total |-> 0]

\* extract_metadata: [err, value]; every exception is raised as PDFReadError
extract_metadata(d, size) ==
    IF validate_file(d) # "ok" THEN [err |-> "PDFReadError", value |-> None]
    ELSE [err |-> "ok",
          value |-> Some([page_count |-> d.total, file_size |-> size])]

\* the three validations of _render_upload_section with their order
\* swapped: the filename first
ValidateUploadNameFirst(u) ==
    LET file_io == [header |-> u.header, size |-> u.size, pos |-> 0]
        type == validate_file_type(file_io).outcome
        size == validate_file_size(file_io, max_file_size_mb).outcome
        name == validate_filename(u.name, FileValidatorInit(None))
    IN IF name.kind # "True"
       THEN [error |-> name.why, calls |-> <<"validate_filename">>]
       ELSE IF type.kind # "True"
       THEN [error |-> type.why,
             calls |-> <<"validate_filename", "validate_file_type">>]
       ELSE [error |-> IF size.kind # "True" THEN size.why ELSE "ok",
             calls |-> <<"validate_filename", "validate_file_type",
                         "validate_file_size">>]

\* the three validations of _render_upload_section on
\* io.BytesIO(uploaded_file.read()), in their order: the validator calls
\* made, and the message of the ValidationError that ended them ("ok" when
\* none was raised)
ValidateUpload(u) ==
    LET file_io == [header |-> u.header, size |-> u.size, pos |-> 0]
        type == validate_file_type(file_io).outcome
        size == validate_file_size(file_io, max_file_size_mb).outcome
        name == validate_filename(u.name, FileValidatorInit(None))
    IN IF type.kind # "True"
       THEN [error |-> type.why, calls |-> <<"validate_file_type">>]
       ELSE IF size.kind # "True"
       THEN [error |-> size.why,
             calls |-> <<"validate_file_type", "validate_file_size">>]
       ELSE [error |-> IF name.kind # "True" THEN name.why ELSE "ok",
             calls |-> <<"validate_file_type", "validate_file_size",
                         "validate_filename">>]

\* f"=== Page {n} ==="
PageHeader(n) ==
    <<"=", "=", "=", " ", "P", "a", "g", "e", " ">> \o NatStr(n)
        \o <<" ", "=", "=", "=">>

\* all_text of _perform_text_extraction; the characters are ASCII, which
\* encode('utf-8') leaves one byte each
AllText(selected_pages, texts) ==
    Join(<<"\n", "\n">>,
         [i \in 1..Len(texts) |->
             PageHeader(IF selected_pages # None /\ selected_pages.v # <<>>
                        THEN selected_pages.v[i] ELSE i)
                 \o <<"\n">> \o texts[i]])

\* the finally block of _process_uploaded_file that unlinks nothing
CleanUpSkipped(files) == files

\* the finally block of _process_uploaded_file: temp_path.unlink()
CleanUp(files) == files \ {".pdf"}

\* no extractor call is under way: the locals of the last one are gone
PipeCleared ==
    /\ pc' = "idle"
    /\ doc' = [exists |-> FALSE, suffix_pdf |-> FALSE, readable |-> FALSE, total |-> 0]
    /\ mode' = "text"
    /\ pages' = None
    /\ language' = "eng"
    /\ total_pages' = 0
    /\ pages_to_process' = <<>>
    /\ invalid_pages' = <<>>
    /\ images' = <<>>
    /\ extracted_texts' = <<>>
    /\ result' = None
    /\ error' = "none"
    /\ renderLog' = <<>>
    /\ ocrLog' = <<>>
    /\ ocr_language' = None
    /\ zero_indexed_pages' = None
    /\ detectLog' = <<>>
    /\ extracted_tables' = <<>>
    /\ xlsx_tables' = None
    /\ UNCHANGED confidence_threshold

\* PDFConverterApp(): the extractors are built with the configured
\* threshold, OCRConfig.confidence_threshold
AppInit ==
    /\ PipeInit
    /\ confidence_threshold = 50
    /\ FilterIdle
    /\ ValidatorIdle
    /\ AppIdle
    /\ ConfigIdle

\* A script run begins: _render_sidebar.  Nothing of the last run is
\* displayed any more, and temp_files starts counting the files of this run.
RenderSidebar ==
    /\ app_pc = "idle"
    /\ \E l \in supported_languages, c \in SliderValues, p \in BOOLEAN :
          session_state' = [session_state EXCEPT !.language = Some(l),
                                                 !.confidence = Some(c),
                                                 !.show_preview = Some(p)]
    /\ app_pc' = "upload"
    /\ download' = None
    /\ message' = "none"
    /\ temp_files' = {}
    /\ temp_doc' = None
    /\ validation_calls' = <<>>
    /\ PipeCleared
    /\ UNCHANGED <<widget_file, filterVars, validatorVars, configVars>>

\* _render_upload_section
RenderUploadSection ==
    /\ app_pc = "upload"
    /\ \E w \in {None} \cup {Some(u) : u \in Uploads} :
          /\ widget_file' = w
          /\ IF w = None
             THEN UNCHANGED <<session_state, message, validation_calls>>
             ELSE /\ validation_calls' = ValidateUpload(w.v).calls
                  /\ IF ValidateUpload(w.v).error = "ok"
                     THEN /\ session_state' =
                                [session_state EXCEPT
                                    !.uploaded_file = Some(At(w.v, 0))]
                          /\ UNCHANGED message
                     ELSE /\ message' = ValidateUpload(w.v).error
                          /\ UNCHANGED session_state
    /\ app_pc' = "options"
    /\ UNCHANGED <<temp_doc, download, temp_files, pipeVars, filterVars,
                   validatorVars, configVars>>

\* _render_options_section
RenderOptionsSection ==
    /\ app_pc = "options"
    /\ IF session_state.uploaded_file = None
       THEN UNCHANGED session_state
       ELSE \E t \in {"Text Extraction", "Table to Excel"}, pressed \in BOOLEAN :
               \E sel \in IF session_state.file_info = None
                          THEN {session_state.selected_pages}
                          ELSE {None} \cup
                               {Some(x) : x \in MultiSelect(
                                              session_state.file_info.v.page_count)} :
                  session_state' =
                      [session_state EXCEPT
                          !.conversion_type = Some(t),
                          !.selected_pages = sel,
                          !.start_processing = (pressed \/ @)]
    /\ app_pc' = "process"
    /\ UNCHANGED <<widget_file, temp_doc, download, message, temp_files, pipeVars,
                   filterVars,
                   validatorVars, configVars, validation_calls>>

\* `if st.session_state.get('uploaded_file') is not None` is false: the run
\* ends
EndRunWithoutFile ==
    /\ app_pc = "process"
    /\ session_state.uploaded_file = None
    /\ app_pc' = "idle"
    /\ UNCHANGED <<session_state, widget_file, temp_doc, download, message,
                   temp_files, pipeVars, filterVars,
                   validatorVars, configVars, validation_calls>>

\* _process_uploaded_file, up to its try: the temporary .pdf file is created
\* and the upload is read into it
CreateTempFile ==
    /\ app_pc = "process"
    /\ session_state.uploaded_file # None
    /\ temp_files' = temp_files \cup {".pdf"}
    /\ temp_doc' = Some(WrittenDoc(session_state.uploaded_file.v))
    /\ session_state' =
          [session_state EXCEPT
              !.uploaded_file = Some(At(session_state.uploaded_file.v,
                                        session_state.uploaded_file.v.size))]
    /\ app_pc' = "try"
    /\ UNCHANGED <<widget_file, download, message, pipeVars, filterVars,
                   validatorVars, configVars, validation_calls>>

\* `if 'file_info' not in st.session_state`: extract_metadata(temp_path); a
\* PDFReadError leaves the try block for run()'s handler
ExtractFileInfo ==
    /\ app_pc = "try"
    /\ IF session_state.file_info # None
       THEN /\ app_pc' = "info"
            /\ UNCHANGED <<session_state, message>>
       ELSE LET m == extract_metadata(temp_doc.v, session_state.uploaded_file.v.size)
            IN IF m.err = "ok"
               THEN /\ session_state' = [session_state EXCEPT !.file_info = m.value]
                    /\ app_pc' = "info"
                    /\ UNCHANGED message
               ELSE /\ message' = "Application Error"
                    /\ app_pc' = "finally"
                    /\ UNCHANGED session_state
    /\ UNCHANGED <<widget_file, temp_doc, download, temp_files, pipeVars,
                   filterVars,
                   validatorVars, configVars, validation_calls>>

\* display_file_info and the preview, which reads the upload and rewinds it
\* and keeps its own exceptions; an exception of the other Streamlit calls
\* leaves the try block for run()'s handler
DisplayFileInfo ==
    /\ app_pc = "info"
    /\ \/ /\ message' = "Application Error"
          /\ app_pc' = "finally"
          /\ UNCHANGED session_state
       \/ /\ session_state' =
                IF session_state.show_preview = Some(FALSE) THEN session_state
                ELSE [session_state EXCEPT
                         !.uploaded_file = Some(At(session_state.uploaded_file.v, 0))]
          /\ app_pc' = "shown"
          /\ UNCHANGED message
    /\ UNCHANGED <<widget_file, temp_doc, download, temp_files, pipeVars,
                   filterVars,
                   validatorVars, configVars, validation_calls>>

\* `if st.session_state.get('start_processing', False)` is false
SkipConversion ==
    /\ app_pc = "shown"
    /\ ~session_state.start_processing
    /\ app_pc' = "finally"
    /\ UNCHANGED <<session_state, widget_file, temp_doc, download, message,
                   temp_files, pipeVars, filterVars,
                   validatorVars, configVars, validation_calls>>

\* _perform_conversion(temp_path): self.text_extractor.extract_text(pdf_path,
\* pages=selected_pages, language=language) or
\* self.table_extractor.extract_tables(...) is called
StartConversion ==
    /\ app_pc = "shown"
    /\ session_state.start_processing
    /\ pc' = "start"
    /\ doc' = temp_doc.v
    /\ mode' = IF session_state.conversion_type = Some("Table to Excel")
               THEN "table" ELSE "text"
    /\ pages' = session_state.selected_pages
    /\ language' = session_state.language.v
    /\ app_pc' = "converting"
    /\ UNCHANGED <<confidence_threshold, total_pages, pages_to_process,
                   invalid_pages, images, extracted_texts, result, error,
                   renderLog, ocrLog, ocr_language, zero_indexed_pages,
                   detectLog, extracted_tables, xlsx_tables>>
    /\ UNCHANGED <<session_state, widget_file, temp_doc, download, message,
                   temp_files, filterVars,
                   validatorVars, configVars, validation_calls>>

\* the extractor raised a PDFProcessingError: `except PDFProcessingError`
\* displays it, and _process_uploaded_file clears start_processing
ConversionFailed ==
    /\ app_pc = "converting"
    /\ pc = "failed"
    /\ message' = "Processing Failed"
    /\ session_state' = [session_state EXCEPT !.start_processing = FALSE]
    /\ app_pc' = "finally"
    /\ UNCHANGED <<widget_file, temp_doc, download, temp_files, pipeVars,
                   filterVars,
                   validatorVars, configVars, validation_calls>>

\* the rest of _perform_text_extraction or _perform_table_extraction after
\* the extractor returned: the results are displayed and the download button
\* is given all_text, or the bytes read from excel_path; an exception of a
\* Streamlit call is displayed by `except Exception`
FinishConversion ==
    /\ app_pc = "converting"
    /\ pc = "done"
    /\ \/ /\ message' = "Unexpected Error"
          /\ UNCHANGED download
       \/ /\ download' =
                IF mode = "text"
                THEN Some([filename |-> "extracted_text.txt",
                           data |-> AllText(session_state.selected_pages, result.v)])
                ELSE Some([filename |-> "extracted_tables.xlsx",
                           data |-> xlsx_tables.v])
          /\ UNCHANGED message
    /\ session_state' = [session_state EXCEPT !.start_processing = FALSE]
    /\ app_pc' = "finally"
    /\ UNCHANGED <<widget_file, temp_doc, temp_files, pipeVars, filterVars,
                   validatorVars, configVars, validation_calls>>

\* finally: `if temp_path.exists(): temp_path.unlink()`; the run ends
Finally ==
    /\ app_pc = "finally"
    /\ temp_files' = CleanUp(temp_files)
    /\ app_pc' = "idle"
    /\ UNCHANGED <<session_state, widget_file, temp_doc, download, message,
                   pipeVars, filterVars,
                   validatorVars, configVars, validation_calls>>

AppNext ==
    \/ RenderSidebar
    \/ RenderUploadSection
    \/ RenderOptionsSection
    \/ EndRunWithoutFile
    \/ CreateTempFile
    \/ ExtractFileInfo
    \/ DisplayFileInfo
    \/ SkipConversion
    \/ StartConversion
    \/ ValidateDocument
    \/ ResolvePages
    \/ ConvertPdfToImages
    \/ OcrPage
    \/ ReturnTexts
    \/ PrepareDetection
    \/ DetectTables
    \/ ExportXlsx
    \/ ReturnTables
    \/ ConversionFailed
    \/ FinishConversion
    \/ Finally

SpecApp == AppInit /\ [][AppNext]_vars

\* ------------------------------------------------ utils/exceptions.py
\* PDFProcessingError and its subclasses
PDFProcessingErrors ==
    {"PDFProcessingError", "PDFReadError", "OCRError", "ConversionError",
     "ValidationError", "ConfigurationError"}

\* ------------------------------------------- ConfigManager (utils/config.py)
\* env_mappings: the key each environment variable overrides.  The keys of
\* the four sections are distinct, so a settings dictionary is modelled flat:
\* a key is absent when its section is, and `if section not in config_dict`
\* makes the section before the key is stored.
env_mappings ==
    [TESSERACT_PATH |-> "tesseract_path", DEFAULT_LANGUAGE |-> "default_language",
     MAX_FILE_SIZE_MB |-> "max_file_size_mb", TEMP_DIR |-> "temp_dir",
     OUTPUT_DIR |-> "output_dir", LOG_LEVEL |-> "level",
     LOG_FILE_PATH |-> "file_path"]

\* the keys of the model: the overridable ones, and confidence_threshold,
\* which no environment variable overrides
Keys == {env_mappings[v] : v \in DOMAIN env_mappings} \cup {"confidence_threshold"}

\* the field defaults of OCRConfig, ProcessingConfig and LoggingConfig
DataclassDefaults ==
    [tesseract_path |-> StrVal(<<>>),
     default_language |-> StrVal(<<"e", "n", "g">>),
     confidence_threshold |-> IntVal(50),
     max_file_size_mb |-> IntVal(max_file_size_mb),
     temp_dir |-> StrVal(<<"/", "t", "m", "p">>),
     output_dir |-> StrVal(<<".", "/", "o", "u", "t", "p", "u", "t">>),
     level |-> StrVal(<<"I", "N", "F", "O">>),
     file_path |-> None]

\* _get_default_config(): a dictionary that has every key
get_default_config ==
    [unknown_key |-> FALSE,
     entries |-> [tesseract_path |-> StrVal(<<>>),
                  default_language |-> StrVal(<<"e", "n", "g">>),
                  confidence_threshold |-> IntVal(50),
                  max_file_size_mb |-> IntVal(100),
                  temp_dir |-> StrVal(<<"/", "t", "m", "p">>),
                  output_dir |-> StrVal(<<".", "/", "o", "u", "t", "p", "u", "t">>),
                  level |-> StrVal(<<"I", "N", "F", "O">>),
                  file_path |-> None]]

\* {}
EmptyDict == [unknown_key |-> FALSE, entries |-> [k \in Keys |-> Absent]]

\* int(value) of a string without underscores: surrounding blanks are
\* dropped, a sign may lead, decimal digits follow
ParseInt(value) ==
    LET s == Strip(value)
        signed == s # <<>> /\ Head(s) \in {"+", "-"}
        body == IF signed THEN Tail(s) ELSE s
    IN IF body = <<>> \/ \E i \in 1..Len(body) : body[i] \notin Range(Digits)
       THEN [raised |-> "ValueError"]
       ELSE [raised |-> "none",
             value |-> IF signed /\ Head(s) = "-" THEN -ParseNat(body, 0)
                       ELSE ParseNat(body, 0)]

\* _load_from_file with a file of another format read as an empty document
load_from_file_any_format(f) ==
    IF ~f.exists THEN [err |-> "ok", dict |-> get_default_config]
    ELSE IF ~f.readable \/ ~f.parses
    THEN [err |-> "ConfigurationError", dict |-> None]
    ELSE IF f.suffix \in {"yaml", "yml"}
    THEN [err |-> "ok", dict |-> IF f.content = None THEN EmptyDict ELSE f.content]
    ELSE IF f.suffix = "json" THEN [err |-> "ok", dict |-> f.content]
    ELSE [err |-> "ok", dict |-> EmptyDict]

\* _load_from_file: the defaults when there is no file; `yaml.safe_load(f) or
\* {}` or json.load(f); everything raised is wrapped into ConfigurationError
load_from_file(f) ==
    IF ~f.exists THEN [err |-> "ok", dict |-> get_default_config]
    ELSE IF ~f.readable \/ ~f.parses
    THEN [err |-> "ConfigurationError", dict |-> None]
    ELSE IF f.suffix \in {"yaml", "yml"}
    THEN [err |-> "ok", dict |-> IF f.content = None THEN EmptyDict ELSE f.content]
    ELSE IF f.suffix = "json" THEN [err |-> "ok", dict |-> f.content]
    ELSE [err |-> "ConfigurationError", dict |-> None]

\* the "Type conversion" of _override_with_env
Coerce(key, value) ==
    IF key \in {"max_file_size_mb", "max_workers", "confidence_threshold"}
    THEN IF ParseInt(value).raised # "none" THEN [raised |-> "ValueError"]
         ELSE [raised |-> "none", value |-> IntVal(ParseInt(value).value)]
    ELSE [raised |-> "none", value |-> StrVal(value)]

\* the variables of env_mappings that os.getenv finds
SetVars(env) == {v \in DOMAIN env_mappings : env[v] # None}

\* _override_with_env where a key of the settings document is left alone
override_with_env_file_first(d, env) ==
    IF SetVars(env) = {} THEN [err |-> "ok", dict |-> d]
    ELSE IF d = None THEN [err |-> "TypeError", dict |-> None]
    ELSE IF \E v \in SetVars(env) : Coerce(env_mappings[v], env[v].v).raised # "none"
    THEN [err |-> "ValueError", dict |-> None]
    ELSE [err |-> "ok",
          dict |-> [d EXCEPT !.entries =
                       [k \in Keys |->
                           IF d.entries[k] = Absent
                              /\ \E v \in SetVars(env) : env_mappings[v] = k
                           THEN LET v == CHOOSE v \in SetVars(env) : env_mappings[v] = k
                                IN Coerce(k, env[v].v).value
                           ELSE d.entries[k]]]]

\* _override_with_env: every variable that is set is stored under its key,
\* converted; a document that is no dictionary cannot take a key
override_with_env(d, env) ==
    IF SetVars(env) = {} THEN [err |-> "ok", dict |-> d]
    ELSE IF d = None THEN [err |-> "TypeError", dict |-> None]
    ELSE IF \E v \in SetVars(env) : Coerce(env_mappings[v], env[v].v).raised # "none"
    THEN [err |-> "ValueError", dict |-> None]
    ELSE [err |-> "ok",
          dict |-> [d EXCEPT !.entries =
                       [k \in Keys |->
                           IF \E v \in SetVars(env) : env_mappings[v] = k
                           THEN LET v == CHOOSE v \in SetVars(env) : env_mappings[v] = k
                                IN Coerce(k, env[v].v).value
                           ELSE d.entries[k]]]]

\* AppConfig.from_dict: a key that is absent gets the default of its field,
\* a key the dataclass does not have is a TypeError, and None has no .get
from_dict(d) ==
    IF d = None THEN [err |-> "AttributeError", config |-> None]
    ELSE IF d.unknown_key THEN [err |-> "TypeError", config |-> None]
    ELSE [err |-> "ok",
          config |-> Some([k \in Keys |-> IF d.entries[k] = Absent
                                          THEN DataclassDefaults[k]
                                          ELSE d.entries[k]])]

\* load_config: [err, config]; `except Exception` raises ConfigurationError
load_config(f, env) ==
    LET loaded == load_from_file(f)
        overridden == override_with_env(loaded.dict, env)
        built == from_dict(overridden.dict)
    IN IF loaded.err # "ok" \/ overridden.err # "ok" \/ built.err # "ok"
       THEN [err |-> "ConfigurationError", config |-> None]
       ELSE [err |-> "ok", config |-> built.config]

\* settings documents: one that sets every key, one that sets three, one
\* with a key AppConfig does not know
FullDoc ==
    [unknown_key |-> FALSE,
     entries |-> [tesseract_path |-> StrVal(<<"/", "t">>),
                  default_language |-> StrVal(<<"f", "r", "a">>),
                  confidence_threshold |-> IntVal(90),
                  max_file_size_mb |-> IntVal(1),
                  temp_dir |-> StrVal(<<"/", "d">>),
                  output_dir |-> StrVal(<<"/", "o">>),
                  level |-> StrVal(<<"D", "E", "B", "U", "G">>),
                  file_path |-> StrVal(<<"/", "l">>)]]

PartialDoc ==
    [EmptyDict EXCEPT !.entries =
        [k \in Keys |-> IF k \in {"default_language", "max_file_size_mb",
                                  "confidence_threshold"}
                        THEN FullDoc.entries[k] ELSE Absent]]

UnknownKeyDoc == [PartialDoc EXCEPT !.unknown_key = TRUE]

\* what parsing the file gives: None for `null` or an empty file
Contents == {None, EmptyDict, PartialDoc, FullDoc, UnknownKeyDoc}

\* the file at config_path: missing, unreadable, unparsable, or a document
FilesAt(suffix) ==
    {[exists |-> FALSE, suffix |-> suffix, readable |-> FALSE, parses |-> FALSE,
      content |-> None],
     [exists |-> TRUE, suffix |-> suffix, readable |-> FALSE, parses |-> FALSE,
      content |-> None],
     [exists |-> TRUE, suffix |-> suffix, readable |-> TRUE, parses |-> FALSE,
      content |-> None]}
    \cup {[exists |-> TRUE, suffix |-> suffix, readable |-> TRUE, parses |-> TRUE,
           content |-> c] : c \in Contents}

Suffixes == {"yaml", "json", "txt"}

\* the values of MAX_FILE_SIZE_MB, and of the other variables
SizeValues == {None, Some(<<"5">>), Some(<<" ", "7">>), Some(<<"a">>), Some(<<>>)}

Environments ==
    {[v \in DOMAIN env_mappings |->
         IF v = "MAX_FILE_SIZE_MB" THEN m
         ELSE IF v \in S THEN Some(<<"/", "e">>) ELSE None] :
        S \in SUBSET (DOMAIN env_mappings \ {"MAX_FILE_SIZE_MB"}), m \in SizeValues}

\* the process starts: the global config_manager = ConfigManager()
ConfigInit ==
    /\ PipeInit
    /\ confidence_threshold = 50
    /\ FilterIdle
    /\ ValidatorIdle
    /\ AppIdle
    /\ \E suffix \in Suffixes : config_file \in FilesAt(suffix)
    /\ environ \in Environments
    /\ manager_config = None
    /\ app_config = None
    /\ config_error = "none"
    /\ main_pc = "idle"
    /\ request_config = None

\* main(): app = PDFConverterApp(), whose __init__ calls
\* config_manager.load_config(); a ConfigurationError leaves main()
Construct ==
    /\ main_pc = "idle"
    /\ LET r == load_config(config_file, environ)
       IN IF r.err = "ok"
          THEN /\ manager_config' = r.config
               /\ app_config' = r.config
               /\ config_error' = "none"
               /\ main_pc' = "constructed"
          ELSE /\ config_error' = r.err
               /\ main_pc' = "failed"
               /\ UNCHANGED <<manager_config, app_config>>
    /\ UNCHANGED <<config_file, environ, request_config, pipeVars, filterVars,
                   validatorVars, appVars, temp_files>>

\* main(): app.run(), the request of this script run; the script ends
Run ==
    /\ main_pc = "constructed"
    /\ request_config' = app_config
    /\ app_config' = None
    /\ main_pc' = "idle"
    /\ UNCHANGED <<config_file, environ, manager_config, config_error, pipeVars,
                   filterVars, validatorVars, appVars, temp_files>>

\* the script run ends with the ConfigurationError
Abort ==
    /\ main_pc = "failed"
    /\ main_pc' = "idle"
    /\ UNCHANGED <<config_file, environ, manager_config, app_config, config_error,
                   request_config, pipeVars, filterVars, validatorVars, appVars,
                   temp_files>>

\* between two script runs the file at config_path is written, or removed
EditSettings ==
    /\ main_pc = "idle"
    /\ config_file' \in FilesAt(config_file.suffix) \ {config_file}
    /\ UNCHANGED <<environ, manager_config, app_config, config_error, main_pc,
                   request_config, pipeVars, filterVars, validatorVars, appVars,
                   temp_files>>

ConfigNext == Construct \/ Run \/ Abort \/ EditSettings

SpecConfig == ConfigInit /\ [][ConfigNext]_vars

\* ================================================================ claims
\* an existing, parseable .pdf file with at least one page
DocValid(d) == d.exists /\ d.suffix_pdf /\ d.readable /\ d.total >= 1

InRange(p, total) == 1 <= p /\ p <= total

IsAscending(s) == \A i \in 1..(Len(s) - 1) : s[i] <= s[i + 1]

Count(s, x) == Cardinality({i \in 1..Len(s) : s[i] = x})

\* the same entries, each as many times
SameEntries(a, b) == \A x \in Range(a) \cup Range(b) : Count(a, x) = Count(b, x)

NoDuplicates(s) == \A i, j \in 1..Len(s) : s[i] = s[j] => i = j

\* the i-th smallest member of the set S
NthSmallest(S, i) == CHOOSE x \in S : Cardinality({y \in S : y < x}) = i - 1

\* the call has got past page-range resolution, or has failed
PastResolution == pc \notin {"idle", "start", "validated"}

\* the text the words of OcrData(p) give at the threshold: "p" has
\* confidence 85, str(p) has 90, "x" has 10
ExpectedPageText(p, threshold) ==
    IF threshold <= 10 THEN <<"p", " ">> \o NatStr(p) \o <<" ", "x">>
    ELSE IF threshold <= 85 THEN <<"p", " ">> \o NatStr(p)
    ELSE IF threshold <= 90 THEN NatStr(p)
    ELSE <<>>

\* C1: for a valid document and a non-empty selection whose entries all lie
\* in [1, total], in extract_text and in extract_tables alike, resolution
\* does not fail and pages_to_process is the selection sorted ascending, with
\* the same entries (nothing added, nothing dropped).
C1_ValidSelectionSortedUnchanged ==
    (/\ PastResolution
     /\ DocValid(doc)
     /\ pages # None
     /\ pages.v # <<>>
     /\ \A i \in 1..Len(pages.v) : InRange(pages.v[i], doc.total))
    => /\ error # "ValidationError"
       /\ invalid_pages = <<>>
       /\ IsAscending(pages_to_process)
       /\ SameEntries(pages_to_process, pages.v)

C1_Witness ==
    /\ pc = "prepared"
    /\ mode = "table"
    /\ pages = Some(<<3, 1, 3>>)
    /\ pages_to_process = <<1, 3, 3>>

\* C2: for a valid document and a selection with at least one value below 1
\* or above the page count, the call fails with ValidationError, the error
\* names every offending value and nothing else, and nothing was rendered,
\* recognized or detected.
C2_InvalidSelectionBatchRejected ==
    (/\ PastResolution
     /\ DocValid(doc)
     /\ pages # None
     /\ \E i \in 1..Len(pages.v) : ~InRange(pages.v[i], doc.total))
    => /\ pc = "failed"
       /\ error = "ValidationError"
       /\ \A i \in 1..Len(pages.v) :
             ~InRange(pages.v[i], doc.total) => pages.v[i] \in Range(invalid_pages)
       /\ \A x \in Range(invalid_pages) : ~InRange(x, doc.total)
       /\ renderLog = <<>>
       /\ ocrLog = <<>>
       /\ detectLog = <<>>

C2_Witness ==
    /\ pc = "failed"
    /\ mode = "text"
    /\ doc.total = 3
    /\ pages = Some(<<5, 0>>)
    /\ error = "ValidationError"
    /\ invalid_pages = <<5, 0>>

\* C3: when the selection is None or the empty list and the document is
\* valid, every page of the document is processed and the call does not
\* raise on its own account: extract_text renders pages 1..total and fails
\* only if the renderer was invoked and failed, extract_tables runs every
\* detection pass over all the pages.
C3_EmptyOrAbsentSelectionProcessesAll ==
    (/\ PastResolution
     /\ DocValid(doc)
     /\ (pages = None \/ pages = Some(<<>>)))
    => /\ error \notin {"ValidationError", "PDFReadError"}
       /\ (mode = "text" /\ pc = "failed") => renderLog # <<>>
       /\ (mode = "text" /\ pc \in {"rendered", "done"}) =>
             images = RangeList(1, doc.total)
       /\ (mode = "text" /\ pc = "done") => Len(result.v) = doc.total
       /\ \A k \in 1..Len(detectLog) : detectLog[k] = 0..(doc.total - 1)
       /\ (mode = "table" /\ pc = "failed") => detectLog # <<>>

\* C5: once images are rendered, extract_text makes one entry per OCR call,
\* in image order: "" for a page whose OCR raised, the page's own filtered
\* text otherwise; the call does not fail, and what it returns has one entry
\* per rendered image.
C5_PerPageFaultIsolation ==
    (mode = "text" /\ ocrLog # <<>>)
    => /\ pc \in {"rendered", "done"}
       /\ error = "none"
       /\ Len(extracted_texts) = Len(ocrLog)
       /\ Len(ocrLog) <= Len(images)
       /\ \A i \in 1..Len(ocrLog) :
             /\ ocrLog[i].page = images[i]
             /\ extracted_texts[i] =
                   IF ocrLog[i].ok
                   THEN ExpectedPageText(images[i], confidence_threshold)
                   ELSE <<>>
       /\ pc = "done" => /\ result = Some(extracted_texts)
                         /\ Len(result.v) = Len(images)

C5_Witness ==
    /\ pc = "done"
    /\ mode = "text"
    /\ Len(result.v) = 3
    /\ ocrLog[1].ok /\ ~ocrLog[2].ok /\ ocrLog[3].ok
    /\ result.v[1] # <<>> /\ result.v[2] = <<>> /\ result.v[3] # <<>>

\* C6: for a duplicate-free valid selection S, extract_text renders and
\* recognizes exactly the pages of S in ascending order and returns |S|
\* strings, the i-th from the i-th smallest page of S; a single-page
\* selection {p} asks the renderer for page p only.
C6_SelectionRenderedExactly ==
    (/\ mode = "text"
     /\ pc \in {"rendered", "done"}
     /\ pages # None
     /\ pages.v # <<>>
     /\ NoDuplicates(pages.v))
    => /\ images = [i \in 1..Len(pages.v) |-> NthSmallest(Range(pages.v), i)]
       /\ Len(pages.v) = 1 =>
             renderLog = <<[args |-> [first |-> pages.v[1], last |-> pages.v[1]],
                            ok |-> TRUE]>>
       /\ pc = "done" =>
             /\ Len(result.v) = Len(pages.v)
             /\ \A i \in 1..Len(pages.v) :
                   /\ ocrLog[i].page = NthSmallest(Range(pages.v), i)
                   /\ result.v[i] =
                         IF ocrLog[i].ok
                         THEN ExpectedPageText(NthSmallest(Range(pages.v), i),
                                               confidence_threshold)
                         ELSE <<>>

C6_Witness ==
    /\ pc = "done"
    /\ mode = "text"
    /\ pages = Some(<<3, 1>>)
    /\ doc.total = 3
    /\ confidence_threshold = 50
    /\ result = Some(<< <<"p", " ", "1">>, <<"p", " ", "3">> >>)

C6_WitnessSinglePage ==
    /\ pc = "done"
    /\ pages = Some(<<2>>)
    /\ Len(renderLog) = 1
    /\ images = <<2>>

\* C7: if the renderer fails during extract_text, the call fails with an
\* OCRError, the OCR engine is never invoked and nothing is returned.
C7_RenderAllOrNothing ==
    (mode = "text" /\ \E k \in 1..Len(renderLog) : ~renderLog[k].ok)
    => /\ pc = "failed"
       /\ error = "OCRError"
       /\ ocrLog = <<>>
       /\ extracted_texts = <<>>
       /\ result = None

C7_Witness ==
    /\ pc = "failed"
    /\ mode = "text"
    /\ Len(pages_to_process) = 3
    /\ Len(renderLog) = 1
    /\ ~renderLog[1].ok
    /\ error = "OCRError"

\* C8 as stated: in extract_text the renderer and the OCR engine are invoked
\* only for a valid document and a valid selection; a document that is
\* missing, unreadable or has zero pages fails with PDFReadError, an invalid
\* selection with ValidationError, before any rendering or OCR.
C8_AsStated ==
    mode = "text" =>
    /\ (renderLog # <<>> \/ ocrLog # <<>>) =>
          /\ DocValid(doc)
          /\ pages # None => \A i \in 1..Len(pages.v) : InRange(pages.v[i], doc.total)
    /\ (pc # "idle" /\ pc # "start"
        /\ (~doc.exists \/ ~doc.readable \/ doc.total = 0)) =>
          /\ pc = "failed"
          /\ error = "PDFReadError"
          /\ renderLog = <<>>
          /\ ocrLog = <<>>
    /\ (PastResolution /\ DocValid(doc) /\ pages # None
        /\ \E i \in 1..Len(pages.v) : ~InRange(pages.v[i], doc.total)) =>
          /\ pc = "failed"
          /\ error = "ValidationError"
          /\ renderLog = <<>>
          /\ ocrLog = <<>>

\* C8 amended: as C8, except that an existing file whose name does not end
\* in .pdf fails with ValidationError whatever its content; PDFReadError is
\* the failure of a missing file and of a .pdf file that is unreadable or
\* has zero pages.
C8_ValidationBeforeRendering ==
    mode = "text" =>
    /\ (renderLog # <<>> \/ ocrLog # <<>>) =>
          /\ DocValid(doc)
          /\ pages # None => \A i \in 1..Len(pages.v) : InRange(pages.v[i], doc.total)
    /\ (pc # "idle" /\ pc # "start" /\ ~DocValid(doc)) =>
          /\ pc = "failed"
          /\ error = IF doc.exists /\ ~doc.suffix_pdf THEN "ValidationError"
                     ELSE "PDFReadError"
          /\ renderLog = <<>>
          /\ ocrLog = <<>>
    /\ (PastResolution /\ DocValid(doc) /\ pages # None
        /\ \E i \in 1..Len(pages.v) : ~InRange(pages.v[i], doc.total)) =>
          /\ pc = "failed"
          /\ error = "ValidationError"
          /\ renderLog = <<>>
          /\ ocrLog = <<>>

C8_Witness ==
    /\ pc = "failed"
    /\ mode = "text"
    /\ doc = [exists |-> TRUE, suffix_pdf |-> TRUE, readable |-> TRUE, total |-> 0]
    /\ error = "PDFReadError"
    /\ renderLog = <<>>

\* the confidence a decimal string of text_data['conf'] writes
ConfidenceOf(c) == CHOOSE n \in -1..100 : IntStr(n) = c

HasNonBlank(w) == \E i \in 1..Len(w) : w[i] # " "

\* the words of text_data the claim retains at the threshold, in order
RetainedWords(data, threshold) ==
    LET idx == SelectSeq([i \in 1..Len(data.text) |-> i],
                         LAMBDA i : /\ ConfidenceOf(data.conf[i]) >= threshold
                                    /\ HasNonBlank(data.text[i]))
    IN [k \in 1..Len(idx) |-> data.text[idx[k]]]

\* words with one blank before every word but the first
SingleSpaced(ws) == Concat([k \in 1..Len(ws) |-> IF k = 1 THEN ws[k]
                                                  ELSE <<" ">> \o ws[k]])

\* C4: _filter_text_by_confidence returns the words whose confidence is at
\* least the threshold and whose trimmed text is non-empty, in their original
\* order, joined by single spaces.
C4_FilterKeepsConfidentWords ==
    filtered_text # None =>
        filtered_text.v = SingleSpaced(RetainedWords(text_data, confidence_threshold))

\* three words, one above the threshold, one exactly at it, one below
C4_Witness ==
    /\ filtered_text = Some(<<"a", " ", "b", " ">>)
    /\ confidence_threshold = 50
    /\ text_data = [text |-> << <<"a">>, <<"b", " ">>, <<"a">> >>,
                    conf |-> << <<"9", "0">>, <<"5", "0">>, <<"4", "9">> >>]

\* C9: validate_file_type and validate_file_size leave the stream's read
\* position where it was on entry, whether they return or raise.
C9_ProbesRestorePosition ==
    op \in {"validate_file_type", "validate_file_size"} => file.pos = pos_before

\* a type check that fails on a stream positioned inside its header
C9_Witness ==
    /\ op = "validate_file_type"
    /\ outcome.kind = "ValidationError"
    /\ file.size > 3
    /\ pos_before = 3
    /\ file.pos = 3

C9_WitnessSize ==
    /\ op = "validate_file_size"
    /\ outcome.kind = "ValidationError"
    /\ pos_before = file.size + 1
    /\ file.pos = pos_before

\* the filename holds one of the ten substrings
ContainsDangerous(name) ==
    \E sub \in { <<".", ".">>, <<"/">>, <<"\\">>, <<":">>, <<"*">>, <<"?">>,
                 <<"\"">>, <<"<">>, <<">">>, <<"|">> } : Contains(name, sub)

\* the filename ends, whatever the case of its letters, in one of the allowed
\* extensions, after at least one other character
HasAllowedExtension(name, allowed) ==
    \E e \in Range(allowed) :
        /\ Len(name) > Len(e)
        /\ Lower(SubSeq(name, Len(name) - Len(e) + 1, Len(name))) = e

\* C10: validate_filename raises ValidationError for every filename holding
\* '..', '/', '\', ':', '*', '?', '"', '<', '>' or '|', and returns True for
\* every non-empty filename with an allowed extension and none of them.
C10_FilenameRejectsDangerousAcceptsClean ==
    op = "validate_filename" =>
        /\ ContainsDangerous(filename) => outcome.kind = "ValidationError"
        /\ (/\ filename # <<>>
            /\ HasAllowedExtension(filename, allowed_extensions)
            /\ ~ContainsDangerous(filename)) => outcome.kind = "True"

\* "a..PDF": an allowed extension, rejected for the '..' it holds
C10_Witness ==
    /\ op = "validate_filename"
    /\ filename = <<"a", ".", ".", "P", "D", "F">>
    /\ outcome = [kind |-> "ValidationError", why |-> "invalid characters"]

C10_WitnessAccepted ==
    /\ op = "validate_filename"
    /\ filename = <<"A", ".", "P", "d", "f">>
    /\ outcome.kind = "True"

\* the stream holds at least five bytes and its first five are %PDF-
BeginsWithPdfSignature(f) ==
    /\ f.size >= 5
    /\ Len(f.header) >= 5
    /\ <<f.header[1], f.header[2], f.header[3], f.header[4], f.header[5]>>
          = <<"%", "P", "D", "F", "-">>

\* C11: validate_file_type returns True exactly when the first five bytes of
\* the stream, read from offset 0 whatever the read position on entry, are
\* %PDF-; for every other stream, one shorter than five bytes included, it
\* raises ValidationError.
C11_TypeCheckReadsSignatureAtOffsetZero ==
    op = "validate_file_type" =>
        /\ outcome.kind \in {"True", "ValidationError"}
        /\ outcome.kind = "True" <=> BeginsWithPdfSignature(file)

\* a PDF stream accepted although its read position was 3 on entry
C11_Witness ==
    /\ op = "validate_file_type"
    /\ pos_before = 3
    /\ BeginsWithPdfSignature(file)
    /\ outcome.kind = "True"

\* a four-byte stream "%PDF" is rejected
C11_WitnessShort ==
    /\ op = "validate_file_type"
    /\ file.size = 4
    /\ file.header = <<"%", "P", "D", "F">>
    /\ outcome.kind = "ValidationError"

\* C12: validate_file_size raises ValidationError exactly when the length of
\* the whole stream is strictly greater than max_size_mb * 1024 * 1024
\* bytes, whatever the read position on entry; a stream of exactly that
\* length, or shorter, is accepted.
C12_SizeLimitStrictOnWholeStream ==
    op = "validate_file_size" =>
        /\ outcome.kind \in {"True", "ValidationError"}
        /\ outcome.kind = "ValidationError"
              <=> file.size > max_size_mb * 1024 * 1024

\* a stream of exactly the limit, read to its end on entry, is accepted
C12_Witness ==
    /\ op = "validate_file_size"
    /\ max_size_mb = 1
    /\ file.size = 1024 * 1024
    /\ pos_before = file.size
    /\ outcome.kind = "True"

\* one byte more is rejected, also when the read position is at the end
C12_WitnessOver ==
    /\ op = "validate_file_size"
    /\ max_size_mb = 1
    /\ file.size = 1024 * 1024 + 1
    /\ pos_before = file.size
    /\ outcome.kind = "ValidationError"

\* C15: the spreadsheet and the metadata extract_tables returns describe the
\* same tables in the same order, whatever the detector returns on each of
\* its invocations: detection runs once per call.
C15_SpreadsheetAndMetadataFromOnePass ==
    (mode = "table" /\ pc = "done") =>
        /\ Len(detectLog) = 1
        /\ xlsx_tables # None
        /\ Len(result.v.tables_metadata) = Len(xlsx_tables.v)
        /\ \A k \in 1..Len(xlsx_tables.v) :
              result.v.tables_metadata[k].page_number = xlsx_tables.v[k].page

\* building the metadata of this table raises
MetadataRaises(t) ==
    /\ t.content.attr
    /\ \/ ~t.content.sized
       \/ /\ t.content.rows # <<>>
          /\ ~t.content.rows[1].sized

\* C16: for n detected tables _generate_tables_metadata returns n records,
\* in detection order, with table_id 1..n; the record of a table whose
\* metadata extraction raises carries an 'error' field, and the record of
\* every other table has table_id, page_number, bbox, confidence, rows and
\* columns, read from that table; the call itself never raises.
C16_TableFaultIsolation ==
    (pc = "idle" /\ mode = "table" /\ result # None) =>
        /\ Len(result.v) = Len(extracted_tables)
        /\ \A k \in 1..Len(extracted_tables) :
              LET t == extracted_tables[k]
                  r == result.v[k]
              IN /\ r.table_id = k
                 /\ IF MetadataRaises(t)
                    THEN "error" \in DOMAIN r
                    ELSE /\ DOMAIN r = {"table_id", "page_number", "bbox",
                                        "confidence", "rows", "columns"}
                         /\ r.page_number = (IF t.page = None THEN Unknown ELSE t.page)
                         /\ r.bbox = t.bbox
                         /\ r.confidence = t.confidence
                         /\ r.rows = (IF t.content.attr THEN Len(t.content.rows) ELSE 0)
                         /\ r.columns = (IF t.content.attr /\ t.content.rows # <<>>
                                         THEN t.content.rows[1].cells ELSE 0)

\* two tables, the second of which raises: entry 1 is populated, entry 2
\* carries the error
C16_Witness ==
    /\ pc = "idle"
    /\ mode = "table"
    /\ result # None
    /\ Len(extracted_tables) = 2
    /\ ~MetadataRaises(extracted_tables[1])
    /\ MetadataRaises(extracted_tables[2])
    /\ result.v[1].rows = 2
    /\ result.v[1].columns = 2
    /\ result.v[2].table_id = 2
    /\ "error" \in DOMAIN result.v[2]

\* a first table that raises does not keep the second from its record
C16_WitnessFirstRaises ==
    /\ pc = "idle"
    /\ mode = "table"
    /\ result # None
    /\ Len(extracted_tables) = 2
    /\ MetadataRaises(extracted_tables[1])
    /\ ~MetadataRaises(extracted_tables[2])
    /\ "error" \in DOMAIN result.v[1]
    /\ "columns" \in DOMAIN result.v[2]

\* language_mapping
LookupTable ==
    {<<"eng", "en">>, <<"fra", "fr">>, <<"deu", "de">>, <<"spa", "es">>,
     <<"ita", "it">>, <<"por", "pt">>, <<"rus", "ru">>, <<"jpn", "ja">>,
     <<"kor", "ko">>, <<"chi_sim", "ch">>, <<"chi_tra", "ch">>}

\* C17: _convert_language_code never raises; it returns the lookup value of
\* a code the lookup table holds and 'en' for every other code.
C17_LanguageTranslationTotal ==
    (pc = "idle" /\ mode = "table" /\ ocr_language # None) =>
        IF \E e \in LookupTable : e[1] = language
        THEN <<language, ocr_language.v>> \in LookupTable
        ELSE ocr_language.v = "en"

\* an unknown code is translated to 'en'
C17_Witness ==
    /\ pc = "idle"
    /\ mode = "table"
    /\ language = "xyz"
    /\ ocr_language = Some("en")

C17_WitnessKnown ==
    /\ pc = "idle"
    /\ mode = "table"
    /\ language = "chi_tra"
    /\ ocr_language = Some("ch")

\* C18: with a detector that supports only en and fr, a table-mode request
\* for "deu" falls back to "en": the code handed to the OCR engine of the
\* table detection is one the detector supports.
C18_UnsupportedLanguageFallsBackToEn ==
    (mode = "table" /\ language = "deu" /\ ocr_language # None) =>
        /\ ocr_language.v \in {"en", "fr"}
        /\ ocr_language.v = "en"

\* a script run that created its temporary .pdf file has ended
RequestCompleted == app_pc = "idle" /\ temp_doc # None

\* C13: the temporary .pdf file _process_uploaded_file creates for a request
\* no longer exists once the request completes, whether metadata extraction
\* and conversion succeed, fail with a processing error or fail with an
\* unexpected exception.
C13_TempPdfGoneWhenRequestCompletes ==
    RequestCompleted => ".pdf" \notin temp_files

\* the temporary file exists while the try block runs, whatever the step
C13_TempPdfExistsDuringRequest ==
    app_pc \in {"try", "info", "shown", "converting", "finally"}
        => ".pdf" \in temp_files

\* a request whose conversion failed with a processing error has completed
C13_Witness ==
    /\ RequestCompleted
    /\ message = "Processing Failed"
    /\ pc = "failed"
    /\ ".pdf" \notin temp_files

\* a request whose metadata extraction raised has completed
C13_WitnessMetadataFailed ==
    /\ RequestCompleted
    /\ message = "Application Error"
    /\ session_state.file_info = None
    /\ ".pdf" \notin temp_files

\* a request with an unexpected exception after a conversion has completed
C13_WitnessUnexpected ==
    /\ RequestCompleted
    /\ message = "Unexpected Error"
    /\ ".pdf" \notin temp_files

\* a request that handed a text to the download button has completed
C13_WitnessSuccess ==
    /\ RequestCompleted
    /\ download # None
    /\ ".pdf" \notin temp_files

\* C14: the temporary .xlsx file extract_tables creates for a request is
\* deleted once the request completes, after a table conversion that
\* succeeded as after an export or a later step that failed.
C14_TempXlsxGoneWhenRequestCompletes ==
    RequestCompleted => ".xlsx" \notin temp_files

\* the text artifact in which every text follows the header of the page it
\* was recognized from
ArtifactOf(source_pages, texts) ==
    Join(<<"\n", "\n">>,
         [k \in 1..Len(texts) |->
             <<"=", "=", "=", " ", "P", "a", "g", "e", " ">>
                 \o NatStr(source_pages[k]) \o <<" ", "=", "=", "=", "\n">>
                 \o texts[k]])

\* C19: in the text artifact handed to the download button, every page's
\* text follows the header "=== Page N ===" with N the 1-indexed number of
\* the page it was recognized from, for every valid selection in whatever
\* order it was made and for all pages.
C19_HeadersNameSourcePages ==
    (download # None /\ mode = "text") =>
        download.v.data = ArtifactOf(images, extracted_texts)

\* C20: the threshold chosen with the slider for a request is the one its
\* words are filtered against, not the one the configuration held at
\* startup.
C20_SliderThresholdApplied ==
    (app_pc \in {"converting", "finally", "idle"} /\ mode = "text" /\ pc = "done") =>
        \A k \in 1..Len(extracted_texts) :
            ocrLog[k].ok =>
                extracted_texts[k] =
                    ExpectedPageText(images[k], session_state.confidence.v)

RECURSIVE IsSubSequence(_, _)
\* a is b with some of its entries left out
IsSubSequence(a, b) ==
    IF a = <<>> THEN TRUE
    ELSE IF b = <<>> THEN FALSE
    ELSE IF Head(a) = Head(b) THEN IsSubSequence(Tail(a), Tail(b))
    ELSE IsSubSequence(a, Tail(b))

\* thresholds below, between, at and above the confidences of the word lists
ComparedThresholds == {-1, 0, 49, 50, 51, 90, 91}

\* C23: for a fixed OCR word list and thresholds t1 <= t2, the words
\* _filter_text_by_confidence retains at t2 are a sub-sequence of the words
\* it retains at t1; the string returned is the words retained at the
\* threshold of the call.
C23_FilterMonotonic ==
    filtered_text # None =>
        /\ filtered_text.v
              = Join(<<" ">>, FilterLoop(text_data, confidence_threshold, 1, <<>>))
        /\ LET retained == [t \in ComparedThresholds \cup {confidence_threshold}
                                |-> FilterLoop(text_data, t, 1, <<>>)]
           IN \A t1, t2 \in DOMAIN retained :
                 t1 <= t2 => IsSubSequence(retained[t2], retained[t1])

\* a word list of which threshold 50 retains a word and drops another that
\* the threshold of the call, 0, retains
C23_Witness ==
    /\ filtered_text # None
    /\ confidence_threshold = 0
    /\ Len(FilterLoop(text_data, 50, 1, <<>>)) > 0
    /\ Len(FilterLoop(text_data, 50, 1, <<>>))
          < Len(FilterLoop(text_data, 0, 1, <<>>))

\* C27: within one extract_text call the renderer is invoked once, never
\* again after it failed, and the OCR engine once per rendered page image, in
\* image order, a page whose OCR attempt failed included.
C27_NoRetry ==
    mode = "text" =>
        /\ Len(renderLog) <= 1
        /\ pc \in {"rendered", "done"} => Len(renderLog) = 1
        /\ Len(ocrLog) <= Len(images)
        /\ \A k \in 1..Len(ocrLog) : ocrLog[k].page = images[k]
        /\ pc = "done" => Len(ocrLog) = Len(images)

\* three images, the OCR of the second failed: three OCR calls in all
C27_Witness ==
    /\ mode = "text"
    /\ pc = "done"
    /\ Len(images) = 3
    /\ Len(renderLog) = 1
    /\ Len(ocrLog) = 3
    /\ ~ocrLog[2].ok
    /\ ocrLog[3].ok

\* the renderer failed: one call of it, none of the OCR engine
C27_WitnessRenderFailed ==
    /\ mode = "text"
    /\ pc = "failed"
    /\ Len(renderLog) = 1
    /\ ~renderLog[1].ok
    /\ ocrLog = <<>>
    /\ Len(pages_to_process) = 2

\* C28: duplicate page numbers of a valid selection are kept: extract_text
\* returns one string per entry of the sorted selection, the i-th of them
\* the text of the page the i-th entry names.
C28_DuplicatesKept ==
    (mode = "text" /\ pc = "done" /\ pages # None) =>
        /\ Len(result.v) = Len(pages.v)
        /\ \A i \in 1..Len(result.v) :
              ocrLog[i].ok =>
                  result.v[i] = ExpectedPageText(pages_to_process[i],
                                                 confidence_threshold)

\* _process_uploaded_file is under way in this script run
Processing == app_pc \in {"try", "info", "shown", "converting", "finally"}

\* C29: the document _process_uploaded_file is handed is the one offered
\* in the current script run, and only if it passed the three validation
\* checks of that run; a rejected file is never processed and an earlier
\* accepted file is not processed in its place.
C29_ProcessedIsOffered ==
    Processing =>
        /\ widget_file # None
        /\ ValidateUpload(widget_file.v).error = "ok"
        /\ At(session_state.uploaded_file.v, 0) = At(widget_file.v, 0)

\* C30: the file information of the session describes the uploaded
\* document: its page count is that of the document being converted, and
\* every selected page lies in 1..that page count.
C30_FileInfoCurrent ==
    app_pc \in {"shown", "converting"} =>
        /\ session_state.file_info.v.page_count =
               session_state.uploaded_file.v.total
        /\ session_state.selected_pages # None =>
               \A i \in 1..Len(session_state.selected_pages.v) :
                   session_state.selected_pages.v[i]
                       \in 1..session_state.uploaded_file.v.total

\* the checks of the upload section in the order the claim gives them, and
\* whether the upload u fails each
UploadChecks == <<"validate_file_type", "validate_file_size", "validate_filename">>

FailsCheck(u, k) ==
    CASE k = 1 -> ~StartsWith(u.header, PdfMagic)
      [] k = 2 -> u.size > max_file_size_mb * MB
      [] k = 3 -> \/ u.name = <<>>
                  \/ Lower(Suffix(PathName(u.name))) # <<".", "p", "d", "f">>
                  \/ \E c \in Range(DangerousChars) : Contains(u.name, c)

\* the message of the first failing check of u, the filename's own checks in
\* the order empty name, extension, unsafe characters
FirstError(u) ==
    IF FailsCheck(u, 1) THEN "not a valid PDF"
    ELSE IF FailsCheck(u, 2) THEN "exceeds maximum"
    ELSE IF u.name = <<>> THEN "empty"
    ELSE IF Lower(Suffix(PathName(u.name))) # <<".", "p", "d", "f">> THEN "extension"
    ELSE "invalid characters"

\* C22: the upload section runs file type, size and filename in this order
\* and stops at the first failure: its error is the one displayed, no later
\* check is called, and the file is not recorded as the uploaded file;
\* validate_filename checks empty name, extension, unsafe characters in
\* this order.
C22_FirstFailureWins ==
    (app_pc \in {"options", "process"} /\ widget_file # None) =>
        LET u == widget_file.v
            failing == {k \in 1..3 : FailsCheck(u, k)}
        IN IF failing = {}
           THEN /\ validation_calls = UploadChecks
                /\ message = "none"
                /\ session_state.uploaded_file = Some(At(u, 0))
           ELSE /\ validation_calls = SubSeq(UploadChecks, 1, Min(failing))
                /\ message = FirstError(u)
                /\ \/ session_state.uploaded_file = None
                   \/ At(session_state.uploaded_file.v, 0) # At(u, 0)

\* an upload that fails all three checks was offered after a.pdf had been
\* accepted: only the file type was checked
C22_Witness ==
    /\ app_pc = "options"
    /\ widget_file # None
    /\ \A k \in 1..3 : FailsCheck(widget_file.v, k)
    /\ validation_calls = <<"validate_file_type">>
    /\ message = "not a valid PDF"
    /\ session_state.uploaded_file # None

\* an upload whose name has the wrong extension and an unsafe character
C22_WitnessFilename ==
    /\ app_pc = "options"
    /\ widget_file # None
    /\ widget_file.v.name = <<"g", "*", ".", "t", "x", "t">>
    /\ validation_calls = UploadChecks
    /\ message = "extension"

C21_WitnessTables ==
    /\ pc = "failed"
    /\ mode = "table"
    /\ detectLog # <<>>
    /\ error = "ConversionError"

\* the value the settings file gives a key, the field's default when the
\* file is missing or omits the key
FileOrDefault(k) ==
    IF config_file.exists /\ config_file.content # None
       /\ config_file.content.entries[k] # Absent
    THEN config_file.content.entries[k]
    ELSE DataclassDefaults[k]

\* the integers the values of MAX_FILE_SIZE_MB stand for
EnvInteger(w) == CASE w = <<"5">> -> 5 [] w = <<" ", "7">> -> 7

\* C24: in the loaded configuration the key of every mapped environment
\* variable that is set has the variable's value (as an integer for
\* MAX_FILE_SIZE_MB, as it is for the strings) whatever the settings file
\* has; every other key has the file's value, or the default when the file
\* omits it.
C24_EnvOverrides ==
    main_pc = "constructed" =>
        /\ \A v \in DOMAIN env_mappings :
              app_config.v[env_mappings[v]] =
                  IF environ[v] = None THEN FileOrDefault(env_mappings[v])
                  ELSE IF v = "MAX_FILE_SIZE_MB"
                  THEN IntVal(EnvInteger(environ[v].v))
                  ELSE StrVal(environ[v].v)
        /\ app_config.v["confidence_threshold"] = FileOrDefault("confidence_threshold")

\* MAX_FILE_SIZE_MB=" 7" and LOG_LEVEL override a file that sets every key,
\* DEFAULT_LANGUAGE is not set
C24_Witness ==
    /\ main_pc = "constructed"
    /\ config_file.exists
    /\ config_file.content = FullDoc
    /\ environ["MAX_FILE_SIZE_MB"] = Some(<<" ", "7">>)
    /\ environ["LOG_LEVEL"] # None
    /\ environ["DEFAULT_LANGUAGE"] = None
    /\ app_config.v["max_file_size_mb"] = IntVal(7)
    /\ app_config.v["default_language"] = StrVal(<<"f", "r", "a">>)

\* a variable is set and the file omits its key, another key comes from the
\* defaults
C24_WitnessOmitted ==
    /\ main_pc = "constructed"
    /\ config_file.exists
    /\ config_file.content = PartialDoc
    /\ environ["TEMP_DIR"] # None
    /\ environ["OUTPUT_DIR"] = None
    /\ app_config.v["temp_dir"] = StrVal(<<"/", "e">>)
    /\ app_config.v["output_dir"] = DataclassDefaults["output_dir"]

\* the failures the claim lists: the file is there and cannot be read or
\* parsed, or is neither YAML nor JSON, or MAX_FILE_SIZE_MB is no integer
ListedFailure ==
    \/ config_file.exists /\ (~config_file.readable \/ ~config_file.parses)
    \/ config_file.exists /\ config_file.suffix \notin {"yaml", "yml", "json"}
    \/ environ["MAX_FILE_SIZE_MB"] \in {Some(<<"a">>), Some(<<>>)}

\* C25: a settings file that cannot be read or parsed or has an unsupported
\* format, or an override that cannot be coerced, makes load_config fail with
\* ConfigurationError: no configuration is returned and no application is
\* constructed to take the request.  A missing file is no failure: the
\* configuration is the built-in defaults.
C25_ConfigFailuresFatal ==
    main_pc \in {"constructed", "failed"} =>
        /\ ListedFailure => main_pc = "failed"
        /\ main_pc = "failed" =>
              /\ config_error = "ConfigurationError"
              /\ app_config = None
        /\ main_pc = "constructed" =>
              /\ config_error = "none"
              /\ app_config # None
              /\ \A k \in Keys : app_config.v[k] # Absent
        /\ (~config_file.exists /\ ~ListedFailure) =>
              /\ main_pc = "constructed"
              /\ \A v \in DOMAIN env_mappings :
                    environ[v] = None =>
                        app_config.v[env_mappings[v]] =
                            DataclassDefaults[env_mappings[v]]
              /\ SetVars(environ) = {} => app_config.v = DataclassDefaults

\* a file of an unsupported format stopped the application
C25_Witness ==
    /\ main_pc = "failed"
    /\ config_file.exists
    /\ config_file.readable
    /\ config_file.parses
    /\ config_file.suffix = "txt"
    /\ SetVars(environ) = {}
    /\ config_error = "ConfigurationError"

\* no settings file and no variable set: the defaults
C25_WitnessMissingFile ==
    /\ main_pc = "constructed"
    /\ ~config_file.exists
    /\ SetVars(environ) = {}
    /\ app_config = Some(DataclassDefaults)

\* MAX_FILE_SIZE_MB cannot be coerced
C25_WitnessCoercion ==
    /\ main_pc = "failed"
    /\ ~config_file.exists
    /\ environ["MAX_FILE_SIZE_MB"] = Some(<<"a">>)

\* C26: once the configuration has been loaded nothing changes the values
\* the components observe: every request of the process runs with the
\* settings the request before it ran with.
C26_SameSettingsEveryRequest ==
    (main_pc = "constructed" /\ request_config # None) =>
        app_config = request_config

====
